---------------------------- MODULE Spec2Model ----------------------------
(* State-machine model of the event/resource coordination layer of the     *)
(* platformer: Bevy systems (one action per system), Bevy's double-buffered *)
(* event queues with per-reader cursors, the shared resources, and the      *)
(* engine side (scene tree, asset loader, input, collisions) as the         *)
(* environment.  One frame = every registered system runs once, in any      *)
(* order the schedule's ordering constraints allow, then EndOfFrame, the    *)
(* physics ticks and FrameStart.                                            *)
EXTENDS Integers, Sequences, FiniteSets, TLC

(***************************************************************************)
(* Values                                                                  *)
(***************************************************************************)
None == "None"

\* level_manager.rs: enum LevelId
LevelId == {"Level1", "Level2", "Level3"}

\* level_manager.rs: LevelId::scene_path
scene_path(l) ==
    CASE l = "Level1" -> "scenes/levels/level_1.tscn"
      [] l = "Level2" -> "scenes/levels/level_2.tscn"
      [] l = "Level3" -> "scenes/levels/level_3.tscn"

\* level_manager.rs: LevelId::display_name
display_name(l) ==
    CASE l = "Level1" -> "Level 1"
      [] l = "Level2" -> "Level 2"
      [] l = "Level3" -> "Level 3"

\* level_manager.rs: expected_path in emit_level_loaded_event_when_scene_ready
expected_path(l) ==
    CASE l = "Level1" -> "/root/Level1"
      [] l = "Level2" -> "/root/Level2"
      [] l = "Level3" -> "/root/Level3"

\* gameplay/mod.rs: the path handle_return_to_menu_events changes to
MainMenuFile == "res://scenes/levels/main_menu.tscn"

\* The GameState enum (declared in the crate root, which is not among the sources)
GameState == {"Loading", "MainMenu", "InGame"}

\* Scenes the engine can have mounted
MainMenuScene == "MainMenu"
Scenes == LevelId \cup {MainMenuScene}

(***************************************************************************)
(* Systems and their event readers                                         *)
(***************************************************************************)
LevelManagerSystems ==
    {"handle_level_load_requests", "handle_level_scene_change",
     "emit_level_loaded_event_when_scene_ready"}
SceneSystems == {"process_scene_operations"}
ResetSystems == {"detect_reset_level_input", "handle_reset_level_events"}
ReturnSystems == {"detect_return_to_menu_input", "handle_return_to_menu_events"}
OrchestratorSystems == ResetSystems \cup ReturnSystems
DoorSystems == {"detect_door_collisions"}
GemSystems == {"detect_gem_player_collision", "handle_gem_collected_events"}
HudSystems ==
    {"setup_hud_on_level_loaded", "generate_hud_update_events",
     "handle_hud_update_events"}
MenuSystems == {"init_menu_assets", "connect_buttons", "listen_for_button_press"}
AudioSystems == {"handle_level_music_change", "handle_sfx_events"}
PlayerSystems ==
    {"detect_player_input", "apply_player_movement", "update_player_animation"}

UpdateSystems ==
    LevelManagerSystems \cup SceneSystems \cup OrchestratorSystems \cup DoorSystems
      \cup GemSystems \cup HudSystems \cup MenuSystems \cup AudioSystems
AllSystems == UpdateSystems \cup PlayerSystems

EventTypes ==
    {"LoadLevelEvent", "LevelLoadedEvent", "SceneOperationEvent", "SceneTreeEvent",
     "GemCollectedEvent", "HudUpdateEvent", "PlaySfxEvent", "ResetLevelEvent",
     "ReturnToMainMenuEvent", "GodotSignal", "PlayerInputEvent", "PlayerMovementEvent"}

\* The EventReader<T> parameter of each system that has one
ReaderType(s) ==
    CASE s = "handle_level_load_requests" -> "LoadLevelEvent"
      [] s = "emit_level_loaded_event_when_scene_ready" -> "SceneTreeEvent"
      [] s = "process_scene_operations" -> "SceneOperationEvent"
      [] s = "handle_reset_level_events" -> "ResetLevelEvent"
      [] s = "handle_return_to_menu_events" -> "ReturnToMainMenuEvent"
      [] s = "handle_gem_collected_events" -> "GemCollectedEvent"
      [] s = "generate_hud_update_events" -> "GemCollectedEvent"
      [] s = "setup_hud_on_level_loaded" -> "LevelLoadedEvent"
      [] s = "handle_hud_update_events" -> "HudUpdateEvent"
      [] s = "listen_for_button_press" -> "GodotSignal"
      [] s = "handle_level_music_change" -> "LevelLoadedEvent"
      [] s = "handle_sfx_events" -> "PlaySfxEvent"
      [] s = "apply_player_movement" -> "PlayerInputEvent"
      [] s = "update_player_animation" -> "PlayerMovementEvent"
      [] OTHER -> None

ReaderSystems == {s \in AllSystems : ReaderType(s) # None}

\* Variant: schedules without .chain()
Unchained(s) == {}

\* Ordering constraints of the schedules (.chain()): the systems that must
\* have run before s in the same frame
Before(s) ==
    CASE s = "handle_reset_level_events" ->
            {"detect_reset_level_input", "detect_return_to_menu_input"}
      [] s = "handle_return_to_menu_events" ->
            {"detect_reset_level_input", "detect_return_to_menu_input"}
      [] s = "handle_gem_collected_events" -> {"detect_gem_player_collision"}
      [] s = "apply_player_movement" -> {"detect_player_input"}
      [] s = "update_player_animation" -> {"apply_player_movement"}
      [] OTHER -> {}

(***************************************************************************)
(* Bounds                                                                  *)
(***************************************************************************)
\* Longest recent-collision list a door or gem reports in one frame
MaxCollisions == 2


\* Most UI signals the engine delivers in one frame
MaxSignals == 1

\* Inputs of one run: key presses and collision records of doors and gems
MaxInputs == 2
\* longest physics tick, in units of 1 / TicksPerSecond seconds
MaxDelta == 2
\* the level geometry lets the player fall for at most this many longest ticks
MaxFall == 3
\* longest queue of scene operations handed to the dispatcher at once
MaxOps == 2
\* most physics ticks (_physics_process) the engine runs in one rendered frame
MaxTicks == 2
\* physics ticks of one run in which the player's input is free
MaxMoves == 2
\* physics ticks of one run in which the player runs and lets go on a slope
MaxRun == 3

(***************************************************************************)
(* State                                                                   *)
(***************************************************************************)
VARIABLES
    systems,        \* the systems registered in the App
    env,            \* what the environment may still do (inputs, planned door hits)
    input,          \* this frame's input: keys just pressed, collision records
    physicsTicks,   \* physics ticks begun since the engine's end of frame
    frame,          \* "update": app.update() is under way; "ended": the engine's
                    \* end of frame is over and the next app.update() not begun
    treeFeed,       \* engine: scene-tree records not yet drained into Events
    ran,            \* systems that have run in this frame
    panicked,       \* a system panicked (unwrap of a missing / freed node)
    gameState,      \* State<GameState>
    nextState,      \* NextState<GameState>: None or the pending state
    currentLevel,   \* CurrentLevel.level_id
    pendingLevel,   \* PendingLevel.level_id
    loadingHandle,  \* LevelLoadingState.loading_handle (None or a scene path)
    assets,         \* asset server: path -> "Unloaded" | "Loading" | "Loaded"
    events,         \* Events<T>: type -> [a: older buffer, b: newer buffer]
    cursor,         \* EventReader cursors: system -> events of a \o b already read
    scene,          \* engine: the scene mounted under /root
    sceneRequest,   \* engine: the scene change to perform at the end of the frame
    gemsCollected,  \* GemsCollected.0
    gemNodes,       \* engine: gem -> "Alive" | "Queued" (queue_free called) | "Freed"
    hudHandles,     \* HudHandles: each label None, "Live" or "Stale" (node freed)
    labels,         \* engine: texts of the mounted scene's HUD labels
    menuAssets,     \* MenuAssets
    connections,    \* engine: button -> listeners GodotSignals::connect has added
    windowMode,     \* engine: DisplayServer window mode
    quitRequested,  \* engine: SceneTree::quit was called
    body,           \* engine: the player's CharacterBody2D
    sprite,         \* engine: the player's AnimatedSprite2D
    lastVelocity,   \* the last run of apply_player_movement with a body: the x of
                    \* get_velocity (from_x), the velocity of set_velocity (x, y)
    music,          \* engine: the tracks playing on the game_music channel
    sfx             \* engine: the sounds started on the game_sfx channel in this frame

sysVars == <<systems, env, input, physicsTicks, frame, treeFeed>>
levelVars == <<currentLevel, pendingLevel, loadingHandle>>
stateVars == <<gameState, nextState>>
engineVars == <<scene, sceneRequest>>
hudVars == <<hudHandles, labels>>
gemVars == <<gemsCollected, gemNodes>>
menuVars == <<menuAssets, connections, windowMode, quitRequested>>
playerVars == <<body, sprite, lastVelocity>>
\* Variables of the subsystems no system of another subsystem touches
audioVars == <<music, sfx>>
restVars == <<menuVars, playerVars, audioVars>>

vars == <<systems, env, input, physicsTicks, frame, treeFeed, ran, panicked, gameState, nextState, currentLevel,
          pendingLevel, loadingHandle, assets, events, cursor, scene, sceneRequest,
          gemsCollected, gemNodes, hudHandles, labels, menuAssets, connections,
          windowMode, quitRequested, body, sprite, lastVelocity, music, sfx>>

(***************************************************************************)
(* Bevy events: Events<T> keeps two buffers; a reader sees every event of   *)
(* a \o b past its cursor; Events::update drops a and starts a new b.       *)
(***************************************************************************)
Max(x, y) == IF x >= y THEN x ELSE y

\* EventWriter::write
Write(ev, t, e) == [ev EXCEPT ![t].b = Append(@, e)]

\* What EventReader::read of system s yields now
Unread(s) ==
    LET all == events[ReaderType(s)].a \o events[ReaderType(s)].b
    IN  SubSeq(all, cursor[s] + 1, Len(all))

\* The cursor of s after its reader consumed the first n unread events
Consumed(s, n) == [cursor EXCEPT ![s] = @ + n]

\* The cursor of s after a full `for e in reader.read()` loop
ReadAll(s) == Consumed(s, Len(Unread(s)))

\* Events::update (event_update_system, once per frame)
EventsUpdate(ev) == [t \in EventTypes |-> [a |-> ev[t].b, b |-> <<>>]]
CursorUpdate(ev, cur) ==
    [s \in ReaderSystems |-> Max(cur[s] - Len(ev[ReaderType(s)].a), 0)]

Finished(s) == ran' = ran \cup {s}

\* run_if(in_state(..))
in_state(st) == gameState = st

\* The systems with an EventWriter<T> for event type t
Writers(t) ==
    CASE t = "LoadLevelEvent" -> {"detect_door_collisions", "listen_for_button_press"}
      [] t = "LevelLoadedEvent" ->
            {"emit_level_loaded_event_when_scene_ready", "handle_reset_level_events"}
      [] t = "SceneOperationEvent" ->
            {"handle_level_scene_change", "handle_reset_level_events",
             "handle_return_to_menu_events"}
      [] t = "GemCollectedEvent" -> {"detect_gem_player_collision"}
      [] t = "HudUpdateEvent" ->
            {"handle_reset_level_events", "setup_hud_on_level_loaded",
             "generate_hud_update_events"}
      [] t = "PlaySfxEvent" -> {"handle_gem_collected_events", "apply_player_movement"}
      [] t = "ResetLevelEvent" -> {"detect_reset_level_input"}
      [] t = "ReturnToMainMenuEvent" -> {"detect_return_to_menu_input"}
      [] t = "PlayerInputEvent" -> {"detect_player_input"}
      [] t = "PlayerMovementEvent" -> {"apply_player_movement"}
      [] OTHER -> {}


(***************************************************************************)
(* Engine and asset server (the host side; only its interface is used)     *)
(***************************************************************************)
\* The scene a scene file instantiates
SceneOfFile(path) ==
    CASE path = MainMenuFile -> MainMenuScene
      [] path = scene_path("Level1") -> "Level1"
      [] path = scene_path("Level2") -> "Level2"
      [] path = scene_path("Level3") -> "Level3"

\* A resource of the project that is not a scene
OtherResource == "res://other.tres"

AssetPaths == {scene_path(l) : l \in LevelId} \cup {OtherResource}

\* godot_resource.try_cast::<PackedScene>() succeeds
IsPackedScene(path) == path # OtherResource

\* AssetServer::load: starts the load unless the asset is loading or loaded
AssetLoad(as, path) ==
    IF as[path] = "Unloaded" THEN [as EXCEPT ![path] = "Loading"] ELSE as

\* Assets::get_mut(handle).is_some()
AssetReady(path) == assets[path] = "Loaded"

\* Root path of a mounted scene
RootPath(sc) == IF sc = MainMenuScene THEN "/root/MainMenu" ELSE expected_path(sc)

\* The scene-tree records the engine reports after mounting scene sc; freed
\* tells whether the node the record's handle names has been freed since
NodeAddedFeed(sc) ==
    IF sc = MainMenuScene
    THEN << [event_type |-> "NodeAdded", path |-> RootPath(sc), freed |-> FALSE] >>
    ELSE << [event_type |-> "NodeAdded", path |-> RootPath(sc), freed |-> FALSE],
            [event_type |-> "NodeAdded", path |-> RootPath(sc) \o "/HUD",
             freed |-> FALSE] >>

\* The scene-tree records of a scene change: the old scene leaves the tree,
\* the new one enters it
SceneTreeFeed(old, sc) ==
    << [event_type |-> "NodeRemoved", path |-> RootPath(old), freed |-> TRUE] >>
        \o NodeAddedFeed(sc)

\* The records still buffered when the mounted scene is replaced: the nodes
\* their handles name are freed with it
FreedNodes(evs) == [i \in 1..Len(evs) |-> [evs[i] EXCEPT !.freed = TRUE]]

\* Variant: the swap is requested as soon as a load is in flight
SceneChangeWhileLoading ==
    /\ currentLevel # None
    /\ loadingHandle # None

\* The condition under which handle_level_scene_change requests the swap
SceneChangeDue ==
    /\ currentLevel # None
    /\ loadingHandle # None
    /\ AssetReady(loadingHandle)

(***************************************************************************)
(* Scheduling.  Every registered system is run once per frame, in any      *)
(* order the .chain() constraints allow.  A run that finds nothing to do    *)
(* changes nothing, so it is left out: a system is settled once it has run  *)
(* or once nothing can give it work before the frame ends.                  *)
(***************************************************************************)
RECURSIVE NothingToDo(_)
Settled(s) == s \notin systems \/ s \in ran \/ NothingToDo(s)

\* The reader of s has nothing unread and every writer of its type in the
\* Update schedule is settled
QuietReader(s) ==
    /\ Unread(s) = <<>>
    /\ \A w \in Writers(ReaderType(s)) \ PlayerSystems : Settled(w)

NothingToDo(s) ==
    CASE s = "detect_reset_level_input" -> ~(in_state("InGame") /\ input.reset)
      [] s = "detect_return_to_menu_input" -> ~(in_state("InGame") /\ input.menu)
      [] s = "handle_reset_level_events" -> ~in_state("InGame") \/ QuietReader(s)
      [] s = "handle_return_to_menu_events" -> ~in_state("InGame") \/ QuietReader(s)
      [] s = "detect_door_collisions" -> input.doors = <<>>
      [] s = "detect_gem_player_collision" ->
            \A g \in DOMAIN input.gems : input.gems[g] = <<>>
      [] s = "handle_level_scene_change" ->
            /\ ~SceneChangeDue
            /\ Settled("handle_level_load_requests")
            /\ Settled("handle_return_to_menu_events")
      [] s = "emit_level_loaded_event_when_scene_ready" ->
            \/ Unread(s) = <<>>
            \/ pendingLevel = None /\ Settled("handle_level_scene_change")
      [] s = "init_menu_assets" ->
            ~(in_state("MainMenu") /\ ~menuAssets.initialized)
      [] s = "connect_buttons" ->
            \/ ~in_state("MainMenu")
            \/ menuAssets.signals_connected
            \/ ~menuAssets.initialized /\ Settled("init_menu_assets")
      [] s = "listen_for_button_press" ->
            \/ ~in_state("MainMenu")
            \/ QuietReader(s)
            \/ ~menuAssets.initialized /\ Settled("init_menu_assets")
      [] s \in AudioSystems -> ~in_state("InGame") \/ QuietReader(s)
      [] s \in PlayerSystems -> FALSE
      [] OTHER -> QuietReader(s)

\* The Update schedule of this frame is over: each of its systems has run or
\* has nothing to do
UpdateSettled == {s \in systems \ PlayerSystems : ~Settled(s)} = {}

\* No physics tick is under way: none has begun since the end of the frame,
\* or the three systems of the last one have run
TickComplete == physicsTicks = 0 \/ (systems \cap PlayerSystems) \subseteq ran

\* System s runs now: an Update system in the frame's app.update(), a
\* PhysicsUpdate system in a physics tick
Runs(s) ==
    /\ ~panicked
    /\ s \in systems
    /\ s \notin ran
    /\ IF s \in PlayerSystems THEN frame = "ended" /\ physicsTicks > 0
       ELSE frame = "update"
    /\ ~NothingToDo(s)
    /\ {p \in Before(s) : ~Settled(p)} = {}

(***************************************************************************)
(* scene_management.rs                                                     *)
(***************************************************************************)
reload == [op |-> "ReloadCurrent", arg |-> None]
change_to_file(path) == [op |-> "ChangeToFile", arg |-> path]
change_to_packed(handle) == [op |-> "ChangeToPacked", arg |-> handle]

\* Variant: a change to a packed scene that does not look at the asset
SceneOperationUnchecked(req, e) ==
    CASE e.op = "ReloadCurrent" -> scene
      [] e.op = "ChangeToFile" -> SceneOfFile(e.arg)
      [] e.op = "ChangeToPacked" ->
            IF IsPackedScene(e.arg) THEN SceneOfFile(e.arg) ELSE MainMenuScene

\* One iteration of the loop of process_scene_operations: the scene change
\* requested of the engine after operation e, req being the one before
SceneOperation(req, e) ==
    CASE e.op = "ReloadCurrent" -> scene
      [] e.op = "ChangeToFile" -> SceneOfFile(e.arg)
      [] e.op = "ChangeToPacked" ->
            IF AssetReady(e.arg) /\ IsPackedScene(e.arg)
            THEN SceneOfFile(e.arg) ELSE req

RECURSIVE SceneOperations(_, _)
SceneOperations(req, evs) ==
    IF evs = <<>> THEN req
    ELSE SceneOperations(SceneOperation(req, Head(evs)), Tail(evs))

process_scene_operations ==
    /\ Runs("process_scene_operations")
    /\ sceneRequest' = SceneOperations(sceneRequest, Unread("process_scene_operations"))
    /\ cursor' = ReadAll("process_scene_operations")
    /\ Finished("process_scene_operations")
    /\ UNCHANGED <<sysVars, panicked, stateVars, levelVars, assets, events, scene,
                   gemVars, hudVars, restVars>>

(***************************************************************************)
(* level_manager.rs                                                        *)
(***************************************************************************)
\* Variant: a load request that leaves the current level for later
LoadRequestKeepsLevel(st, e) ==
    [loading_handle |-> scene_path(e.level_id),
     level_id |-> st.level_id,
     assets |-> AssetLoad(st.assets, scene_path(e.level_id))]

\* One iteration of the loop of handle_level_load_requests
LoadRequest(st, e) ==
    [loading_handle |-> scene_path(e.level_id),
     level_id |-> e.level_id,
     assets |-> AssetLoad(st.assets, scene_path(e.level_id))]

RECURSIVE LoadRequests(_, _)
LoadRequests(st, evs) ==
    IF evs = <<>> THEN st
    ELSE LoadRequests(LoadRequest(st, Head(evs)), Tail(evs))

handle_level_load_requests ==
    /\ Runs("handle_level_load_requests")
    /\ LET st == LoadRequests([loading_handle |-> loadingHandle,
                               level_id |-> currentLevel, assets |-> assets],
                              Unread("handle_level_load_requests"))
       IN  /\ loadingHandle' = st.loading_handle
           /\ currentLevel' = st.level_id
           /\ assets' = st.assets
    /\ cursor' = ReadAll("handle_level_load_requests")
    /\ Finished("handle_level_load_requests")
    /\ UNCHANGED <<sysVars, panicked, stateVars, pendingLevel, events, engineVars,
                   gemVars, hudVars, restVars>>

handle_level_scene_change ==
    /\ Runs("handle_level_scene_change")
    /\ IF SceneChangeDue
       THEN /\ events' = Write(events, "SceneOperationEvent",
                               change_to_packed(loadingHandle))
            /\ pendingLevel' = currentLevel
            /\ loadingHandle' = None
       ELSE UNCHANGED <<events, pendingLevel, loadingHandle>>
    /\ Finished("handle_level_scene_change")
    /\ UNCHANGED <<sysVars, panicked, stateVars, currentLevel, assets, cursor,
                   engineVars, gemVars, hudVars, restVars>>

\* Emits on the first record, whatever its path
FirstRecord(evs, l, i) == IF i > Len(evs) THEN 0 ELSE i

\* The loop over the unread records from index i: the index of the first
\* record that confirms level l, 0 when none does, and -k when get::<Node>()
\* panics at record k, a NodeAdded record whose node was freed, before any
\* record confirms
RECURSIVE FirstMatch(_, _, _)
FirstMatch(evs, l, i) ==
    IF i > Len(evs) THEN 0
    ELSE IF evs[i].event_type = "NodeAdded"
         THEN IF evs[i].freed THEN 0 - i
              ELSE IF evs[i].path = expected_path(l) THEN i
                   ELSE FirstMatch(evs, l, i + 1)
         ELSE FirstMatch(evs, l, i + 1)

emit_level_loaded_event_when_scene_ready ==
    /\ Runs("emit_level_loaded_event_when_scene_ready")
    /\ IF pendingLevel # None
       THEN LET evs == Unread("emit_level_loaded_event_when_scene_ready")
                k == FirstMatch(evs, pendingLevel, 1)
            IN  IF k > 0
                THEN /\ events' = Write(events, "LevelLoadedEvent",
                                        [level_id |-> pendingLevel])
                     /\ pendingLevel' = None
                     /\ cursor' = Consumed("emit_level_loaded_event_when_scene_ready", k)
                     /\ UNCHANGED panicked
                ELSE IF k < 0
                THEN /\ panicked' = TRUE
                     /\ cursor' = Consumed("emit_level_loaded_event_when_scene_ready",
                                           0 - k)
                     /\ UNCHANGED <<events, pendingLevel>>
                ELSE /\ cursor' = ReadAll("emit_level_loaded_event_when_scene_ready")
                     /\ UNCHANGED <<events, pendingLevel, panicked>>
       ELSE UNCHANGED <<events, pendingLevel, cursor, panicked>>
    /\ Finished("emit_level_loaded_event_when_scene_ready")
    /\ UNCHANGED <<sysVars, stateVars, currentLevel, loadingHandle, assets,
                   engineVars, gemVars, hudVars, restVars>>

(***************************************************************************)
(* Environment inputs                                                      *)
(***************************************************************************)
\* Entities a collision record can name
Entities == {"Player", "Enemy"}

\* players.get(entity).is_ok()
IsPlayer(entity) == entity = "Player"

\* Sequences over S of length at most n
RECURSIVE SeqsUpTo(_, _)
SeqsUpTo(S, n) ==
    IF n = 0 THEN {<<>>}
    ELSE LET shorter == SeqsUpTo(S, n - 1)
         IN  shorter \cup {Append(q, x) : q \in {r \in shorter : Len(r) = n - 1}, x \in S}

Min(x, y) == IF x <= y THEN x ELSE y

\* Collision records the doors of the mounted level may report in one frame:
\* [level: the door's destination, entity: what touched it], in query order
DoorRecords ==
    {[level |-> l, entity |-> "Player"] : l \in LevelId}
      \cup (IF "enemy" \in env.kinds
            THEN {[level |-> "Level1", entity |-> "Enemy"]} ELSE {})

DoorCollisions(sc) ==
    IF sc \notin LevelId THEN {<<>>}
    ELSE IF "door" \in env.kinds
    THEN {recs \in SeqsUpTo(DoorRecords, MaxCollisions) :
            Len(recs) <= env.inputs}
    ELSE {[i \in 1..n |-> [level |-> env.doors[i], entity |-> "Player"]] :
            n \in 0..Min(Len(env.doors), MaxCollisions)}

(***************************************************************************)
(* gameplay/door.rs                                                        *)
(***************************************************************************)
RECURSIVE DoorEvents(_)
DoorEvents(recs) ==
    IF recs = <<>> THEN <<>>
    ELSE (IF IsPlayer(Head(recs).entity)
          THEN << [level_id |-> Head(recs).level] >> ELSE <<>>)
         \o DoorEvents(Tail(recs))

RECURSIVE WriteAll(_, _, _)
WriteAll(ev, t, es) ==
    IF es = <<>> THEN ev ELSE WriteAll(Write(ev, t, Head(es)), t, Tail(es))

detect_door_collisions ==
    /\ Runs("detect_door_collisions")
    /\ events' = WriteAll(events, "LoadLevelEvent", DoorEvents(input.doors))
    /\ Finished("detect_door_collisions")
    /\ UNCHANGED <<sysVars, panicked, stateVars, levelVars, assets, cursor,
                   engineVars, gemVars, hudVars, restVars>>

(***************************************************************************)
(* gameplay/mod.rs                                                         *)
(***************************************************************************)
detect_reset_level_input ==
    /\ Runs("detect_reset_level_input")
    /\ events' = IF in_state("InGame") /\ input.reset
                 THEN Write(events, "ResetLevelEvent", "ResetLevelEvent")
                 ELSE events
    /\ Finished("detect_reset_level_input")
    /\ UNCHANGED <<sysVars, panicked, stateVars, levelVars, assets, cursor,
                   engineVars, gemVars, hudVars, restVars>>

detect_return_to_menu_input ==
    /\ Runs("detect_return_to_menu_input")
    /\ events' = IF in_state("InGame") /\ input.menu
                 THEN Write(events, "ReturnToMainMenuEvent", "ReturnToMainMenuEvent")
                 ELSE events
    /\ Finished("detect_return_to_menu_input")
    /\ UNCHANGED <<sysVars, panicked, stateVars, levelVars, assets, cursor,
                   engineVars, gemVars, hudVars, restVars>>

\* HudHandles::clear (gameplay/hud.rs)
HudHandlesCleared == [current_level_label |-> None, gems_label |-> None]

GemsChanged(n) == [kind |-> "GemsChanged", count |-> n]

\* Variant: a reset that asks for a fresh load of the level instead of
\* re-announcing it
ResetLevelByLoad(ev) ==
    LET ev1 == Write(ev, "HudUpdateEvent", GemsChanged(0))
        ev2 == Write(ev1, "SceneOperationEvent", reload)
    IN  IF currentLevel # None
        THEN Write(ev2, "LoadLevelEvent", [level_id |-> currentLevel])
        ELSE ev2

\* One iteration of the loop of handle_reset_level_events, on the event buffers
ResetLevel(ev) ==
    LET ev1 == Write(ev, "HudUpdateEvent", GemsChanged(0))
        ev2 == Write(ev1, "SceneOperationEvent", reload)
    IN  IF currentLevel # None
        THEN Write(ev2, "LevelLoadedEvent", [level_id |-> currentLevel])
        ELSE ev2

RECURSIVE ResetLevels(_, _)
ResetLevels(ev, n) == IF n = 0 THEN ev ELSE ResetLevels(ResetLevel(ev), n - 1)

handle_reset_level_events ==
    /\ Runs("handle_reset_level_events")
    /\ IF in_state("InGame")
       THEN LET n == Len(Unread("handle_reset_level_events"))
            IN  /\ gemsCollected' = IF n > 0 THEN 0 ELSE gemsCollected
                /\ hudHandles' = IF n > 0 THEN HudHandlesCleared ELSE hudHandles
                /\ events' = ResetLevels(events, n)
                /\ cursor' = ReadAll("handle_reset_level_events")
       ELSE UNCHANGED <<gemsCollected, hudHandles, events, cursor>>
    /\ Finished("handle_reset_level_events")
    /\ UNCHANGED <<sysVars, panicked, stateVars, levelVars, assets, engineVars,
                   gemNodes, labels, restVars>>

\* Variant: the return to the menu reloads the current scene
ReturnsByReload(ev, n) == IF n = 0 THEN ev ELSE Write(ev, "SceneOperationEvent", reload)

RECURSIVE ReturnsToMenu(_, _)
ReturnsToMenu(ev, n) ==
    IF n = 0 THEN ev
    ELSE ReturnsToMenu(Write(ev, "SceneOperationEvent", change_to_file(MainMenuFile)),
                       n - 1)

handle_return_to_menu_events ==
    /\ Runs("handle_return_to_menu_events")
    /\ IF in_state("InGame")
       THEN LET n == Len(Unread("handle_return_to_menu_events"))
            IN  /\ gemsCollected' = IF n > 0 THEN 0 ELSE gemsCollected
                /\ hudHandles' = IF n > 0 THEN HudHandlesCleared ELSE hudHandles
                /\ currentLevel' = IF n > 0 THEN None ELSE currentLevel
                /\ nextState' = IF n > 0 THEN "MainMenu" ELSE nextState
                /\ events' = ReturnsToMenu(events, n)
                /\ cursor' = ReadAll("handle_return_to_menu_events")
       ELSE UNCHANGED <<gemsCollected, hudHandles, currentLevel, nextState, events,
                        cursor>>
    /\ Finished("handle_return_to_menu_events")
    /\ UNCHANGED <<sysVars, panicked, gameState, pendingLevel, loadingHandle, assets,
                   engineVars, gemNodes, labels, restVars>>

(***************************************************************************)
(* gameplay/gem.rs                                                         *)
(***************************************************************************)
\* The gem entities of a level scene, in query order
Gems == <<"Gem1", "Gem2">>
GemSet == {Gems[i] : i \in 1..Len(Gems)}

\* handle.try_get::<Area2D>().is_some(): the node has not been freed yet
\* (queue_free frees it at the end of the frame)
GemNodeValid(nodes, g) == nodes[g] \in {"Alive", "Queued"}

\* The inner loop of detect_gem_player_collision for gem g over its records
RECURSIVE GemRecords(_, _, _)
GemRecords(st, g, recs) ==
    IF recs = <<>> THEN st
    ELSE GemRecords(
           IF IsPlayer(Head(recs)) /\ GemNodeValid(st.nodes, g)
           THEN [nodes |-> [st.nodes EXCEPT ![g] = "Queued"],
                 written |-> Append(st.written,
                                    [player_entity |-> Head(recs), gem_entity |-> g])]
           ELSE st,
           g, Tail(recs))

\* The outer loop over the gem query, from gem number i on
RECURSIVE GemQuery(_, _, _)
GemQuery(st, coll, i) ==
    IF i > Len(Gems) THEN st
    ELSE GemQuery(GemRecords(st, Gems[i], coll[Gems[i]]), coll, i + 1)

detect_gem_player_collision ==
    /\ Runs("detect_gem_player_collision")
    /\ LET st == GemQuery([nodes |-> gemNodes, written |-> <<>>], input.gems, 1)
       IN  /\ gemNodes' = st.nodes
           /\ events' = WriteAll(events, "GemCollectedEvent", st.written)
    /\ Finished("detect_gem_player_collision")
    /\ UNCHANGED <<sysVars, panicked, stateVars, levelVars, assets, cursor,
                   engineVars, gemsCollected, hudVars, restVars>>

\* Variant: a collection counted twice
GemCollectedTwice(st) ==
    [count |-> st.count + 2, ev |-> Write(st.ev, "PlaySfxEvent", "GemCollected")]

\* One iteration of the loop of handle_gem_collected_events
GemCollected(st) ==
    [count |-> st.count + 1, ev |-> Write(st.ev, "PlaySfxEvent", "GemCollected")]

RECURSIVE GemsCollectedLoop(_, _)
GemsCollectedLoop(st, n) ==
    IF n = 0 THEN st ELSE GemsCollectedLoop(GemCollected(st), n - 1)

handle_gem_collected_events ==
    /\ Runs("handle_gem_collected_events")
    /\ LET st == GemsCollectedLoop([count |-> gemsCollected, ev |-> events],
                                   Len(Unread("handle_gem_collected_events")))
       IN  /\ gemsCollected' = st.count
           /\ events' = st.ev
    /\ cursor' = ReadAll("handle_gem_collected_events")
    /\ Finished("handle_gem_collected_events")
    /\ UNCHANGED <<sysVars, panicked, stateVars, levelVars, assets, engineVars,
                   gemNodes, hudVars, restVars>>

(***************************************************************************)
(* gameplay/hud.rs                                                         *)
(***************************************************************************)
\* Texts the HUD labels of a freshly mounted scene show
SceneDefaultLabels == [current_level |-> "", gems |-> ""]

\* format!("Gems: {gem_count}")
GemsText(n) == "Gems: " \o ToString(n)

\* HudUi::from_node(root) finds both labels: the mounted scene has a HUD
HudNodesPresent == scene \in LevelId

\* One iteration of the loop of setup_hud_on_level_loaded; read counts the
\* events the reader has yielded: a panic ends the loop at the event that
\* caused it
HudSetup(st, e) ==
    IF st.panicked THEN st
    ELSE IF ~HudNodesPresent
    THEN [st EXCEPT !.panicked = TRUE, !.read = @ + 1]
    ELSE [panicked |-> FALSE, read |-> st.read + 1,
          handles |-> [current_level_label |-> "Live", gems_label |-> "Live"],
          labels |-> [st.labels EXCEPT !.current_level = display_name(e.level_id)],
          ev |-> Write(st.ev, "HudUpdateEvent", GemsChanged(gemsCollected))]

RECURSIVE HudSetups(_, _)
HudSetups(st, evs) ==
    IF evs = <<>> THEN st ELSE HudSetups(HudSetup(st, Head(evs)), Tail(evs))

setup_hud_on_level_loaded ==
    /\ Runs("setup_hud_on_level_loaded")
    /\ LET st == HudSetups([panicked |-> FALSE, read |-> 0, handles |-> hudHandles,
                            labels |-> labels, ev |-> events],
                           Unread("setup_hud_on_level_loaded"))
       IN  /\ panicked' = st.panicked
           /\ hudHandles' = st.handles
           /\ labels' = st.labels
           /\ events' = st.ev
           /\ cursor' = Consumed("setup_hud_on_level_loaded", st.read)
    /\ Finished("setup_hud_on_level_loaded")
    /\ UNCHANGED <<sysVars, stateVars, levelVars, assets, engineVars, gemVars, restVars>>

RECURSIVE HudGenerated(_, _)
HudGenerated(ev, n) ==
    IF n = 0 THEN ev
    ELSE HudGenerated(Write(ev, "HudUpdateEvent", GemsChanged(gemsCollected)), n - 1)

generate_hud_update_events ==
    /\ Runs("generate_hud_update_events")
    /\ events' = HudGenerated(events, Len(Unread("generate_hud_update_events")))
    /\ cursor' = ReadAll("generate_hud_update_events")
    /\ Finished("generate_hud_update_events")
    /\ UNCHANGED <<sysVars, panicked, stateVars, levelVars, assets, engineVars,
                   gemVars, hudVars, restVars>>

\* One iteration of the loop of handle_hud_update_events: the label is set
\* through the cached handle; get::<Label>() on a freed node panics and ends
\* the loop at the event that caused it; read counts the events the reader
\* has yielded
HudUpdate(st, e) ==
    IF st.panicked THEN st
    ELSE IF hudHandles.gems_label = None THEN [st EXCEPT !.read = @ + 1]
    ELSE IF hudHandles.gems_label = "Stale"
    THEN [st EXCEPT !.panicked = TRUE, !.read = @ + 1]
    ELSE [st EXCEPT !.labels.gems = GemsText(e.count), !.read = @ + 1]

RECURSIVE HudUpdates(_, _)
HudUpdates(st, evs) ==
    IF evs = <<>> THEN st ELSE HudUpdates(HudUpdate(st, Head(evs)), Tail(evs))

handle_hud_update_events ==
    /\ Runs("handle_hud_update_events")
    /\ LET st == HudUpdates([panicked |-> FALSE, read |-> 0, labels |-> labels],
                            Unread("handle_hud_update_events"))
       IN  /\ panicked' = st.panicked
           /\ labels' = st.labels
           /\ cursor' = Consumed("handle_hud_update_events", st.read)
    /\ Finished("handle_hud_update_events")
    /\ UNCHANGED <<sysVars, stateVars, levelVars, assets, events, engineVars,
                   gemVars, hudHandles, restVars>>

(***************************************************************************)
(* main_menu.rs                                                            *)
(***************************************************************************)
Buttons == {"StartButton", "FullscreenButton", "QuitButton"}

\* A GodotNodeHandle to a menu button: valid until the node is freed
Handle(button) == [node |-> button, valid |-> TRUE]

\* Option::None of a button handle
NoHandle == [node |-> None, valid |-> FALSE]

\* handle.try_get::<Node>().is_some()
HandleValid(h) == h.valid

\* Variant: the lookup of the menu nodes never succeeds
MenuNodesNeverFound == FALSE

\* MenuUi::from_node(root) succeeds: the menu scene is mounted
MenuNodesPresent == scene = MainMenuScene

\* Variant: a reset that forgets the initialized flag
MenuAssetsStillInitialized ==
    [start_button |-> NoHandle, fullscreen_button |-> NoHandle,
     quit_button |-> NoHandle,
     initialized |-> TRUE, signals_connected |-> FALSE]

\* reset_menu_assets, also the Default of MenuAssets
MenuAssetsEmpty ==
    [start_button |-> NoHandle, fullscreen_button |-> NoHandle,
     quit_button |-> NoHandle,
     initialized |-> FALSE, signals_connected |-> FALSE]

menu_not_initialized == ~menuAssets.initialized
menu_initialized_but_signals_not_connected ==
    menuAssets.initialized /\ ~menuAssets.signals_connected
menu_is_initialized == menuAssets.initialized

init_menu_assets ==
    /\ Runs("init_menu_assets")
    /\ IF in_state("MainMenu") /\ menu_not_initialized /\ MenuNodesPresent
       THEN menuAssets' = [menuAssets EXCEPT
                             !.start_button = Handle("StartButton"),
                             !.fullscreen_button = Handle("FullscreenButton"),
                             !.quit_button = Handle("QuitButton"),
                             !.initialized = TRUE]
       ELSE UNCHANGED menuAssets
    /\ Finished("init_menu_assets")
    /\ UNCHANGED <<sysVars, panicked, stateVars, levelVars, assets, events, cursor,
                   engineVars, gemVars, hudVars, connections, windowMode,
                   quitRequested, playerVars, audioVars>>

\* GodotSignals::connect(handle, "pressed"): one more listener on the node
Connect(conn, h) ==
    IF HandleValid(h) THEN [conn EXCEPT ![h.node] = @ + 1] ELSE conn

connect_buttons ==
    /\ Runs("connect_buttons")
    /\ IF /\ in_state("MainMenu")
          /\ menu_initialized_but_signals_not_connected
          /\ menuAssets.start_button # NoHandle
          /\ menuAssets.fullscreen_button # NoHandle
          /\ menuAssets.quit_button # NoHandle
          /\ ~menuAssets.signals_connected
       THEN /\ connections' = Connect(Connect(Connect(connections,
                                 menuAssets.start_button),
                                 menuAssets.fullscreen_button),
                                 menuAssets.quit_button)
            /\ menuAssets' = [menuAssets EXCEPT !.signals_connected = TRUE]
       ELSE UNCHANGED <<connections, menuAssets>>
    /\ Finished("connect_buttons")
    /\ UNCHANGED <<sysVars, panicked, stateVars, levelVars, assets, events, cursor,
                   engineVars, gemVars, hudVars, windowMode, quitRequested,
                   playerVars, audioVars>>

\* The fullscreen toggle of listen_for_button_press
ToggleWindowMode(mode) ==
    IF mode = "FULLSCREEN" THEN "WINDOWED"
    ELSE IF mode = "WINDOWED" THEN "FULLSCREEN"
    ELSE mode

\* Variant: the target is matched by name without asking whether the node
\* still exists
ButtonPressUnchecked(st, evt) ==
    IF evt.name = "pressed" /\ evt.target.node = "StartButton"
    THEN [st EXCEPT !.next = "InGame",
                    !.ev = Write(@, "LoadLevelEvent", [level_id |-> "Level1"])]
    ELSE st

\* One iteration of the loop of listen_for_button_press
ButtonPress(st, evt) ==
    IF ~HandleValid(evt.target) THEN st
    ELSE IF evt.name # "pressed" THEN st
    ELSE IF menuAssets.start_button # NoHandle /\ evt.target = menuAssets.start_button
    THEN [st EXCEPT !.next = "InGame",
                    !.ev = Write(@, "LoadLevelEvent", [level_id |-> "Level1"])]
    ELSE IF menuAssets.fullscreen_button # NoHandle
              /\ evt.target = menuAssets.fullscreen_button
    THEN [st EXCEPT !.mode = ToggleWindowMode(@)]
    ELSE IF menuAssets.quit_button # NoHandle /\ evt.target = menuAssets.quit_button
    THEN [st EXCEPT !.quit = TRUE]
    ELSE st

RECURSIVE ButtonPresses(_, _)
ButtonPresses(st, evs) ==
    IF evs = <<>> THEN st ELSE ButtonPresses(ButtonPress(st, Head(evs)), Tail(evs))

listen_for_button_press ==
    /\ Runs("listen_for_button_press")
    /\ IF in_state("MainMenu") /\ menu_is_initialized
       THEN LET st == ButtonPresses([next |-> nextState, ev |-> events,
                                     mode |-> windowMode, quit |-> quitRequested],
                                    Unread("listen_for_button_press"))
            IN  /\ nextState' = st.next
                /\ events' = st.ev
                /\ windowMode' = st.mode
                /\ quitRequested' = st.quit
                /\ cursor' = ReadAll("listen_for_button_press")
       ELSE UNCHANGED <<nextState, events, windowMode, quitRequested, cursor>>
    /\ Finished("listen_for_button_press")
    /\ UNCHANGED <<sysVars, panicked, gameState, levelVars, assets, engineVars,
                   gemVars, hudVars, menuAssets, connections, playerVars,
                   audioVars>>

(***************************************************************************)
(* gameplay/player.rs: the three systems of the PhysicsUpdate schedule,    *)
(* chained; they run once in every physics tick (PhysicsTick), between the *)
(* engine's end of frame and the next app.update().  Velocities are        *)
(* integers in units of 1 / TicksPerSecond px/s, so that                   *)
(* gravity * delta_seconds is exact.                                       *)
(***************************************************************************)
\* Player2D::init
speed == 250
jump_velocity == -400
gravity == 980

\* PhysicsDelta::delta_seconds is a multiple of 1 / TicksPerSecond seconds
TicksPerSecond == 60

\* A velocity of v px/s in the unit of the model
Units(v) == v * TicksPerSecond

\* gravity.0 * physics_delta.delta_seconds for a tick of dt units
GravityStep(dt) == gravity * dt

Abs(x) == IF x < 0 THEN -x ELSE x

\* Variant: a step of delta that is not clamped at the target
move_toward_unclamped(from, to, delta) ==
    IF to > from THEN from + delta ELSE from - delta

\* Godot's move_toward(from, to, delta)
move_toward(from, to, delta) ==
    IF Abs(to - from) <= delta THEN to
    ELSE IF to > from THEN from + delta ELSE from - delta

\* Variant: an input event only when some input is not neutral
InputEventsUnlessNeutral(b, inp) ==
    IF b.valid /\ (inp.axis # 0 \/ inp.jump)
    THEN << [movement_direction |-> inp.axis, jump_pressed |-> inp.jump,
             is_on_floor |-> b.on_floor] >>
    ELSE <<>>

\* Variant: an input event also when the body's node is invalid
InputEventsAlways(b, inp) ==
    << [movement_direction |-> inp.axis, jump_pressed |-> inp.jump,
        is_on_floor |-> b.valid /\ b.on_floor] >>

\* The input events detect_player_input writes for the body b and the input
\* inp: none when the body's node is invalid, else one
InputEvents(b, inp) ==
    IF b.valid
    THEN << [movement_direction |-> inp.axis, jump_pressed |-> inp.jump,
             is_on_floor |-> b.on_floor] >>
    ELSE <<>>

detect_player_input ==
    /\ Runs("detect_player_input")
    /\ events' = WriteAll(events, "PlayerInputEvent", InputEvents(body, input))
    /\ Finished("detect_player_input")
    /\ UNCHANGED <<sysVars, panicked, stateVars, levelVars, assets, cursor,
                   engineVars, gemVars, hudVars, restVars>>

\* Variant: a jump that does not ask whether the player stands on the floor
MovementInputAirJump(st, e) ==
    LET jumps == e.jump_pressed
    IN  [x |-> IF e.movement_direction # 0
               THEN e.movement_direction * Units(speed)
               ELSE move_toward(st.x, 0, Units(speed) \div 2),
         y |-> IF jumps THEN Units(jump_velocity) ELSE st.y,
         ev |-> IF jumps THEN Write(st.ev, "PlaySfxEvent", "PlayerJump") ELSE st.ev,
         movement_occurred |-> st.movement_occurred \/ e.movement_direction # 0,
         last_movement_direction |-> e.movement_direction,
         processed_input |-> TRUE]

\* Variant: the direction is remembered mirrored
MovementInputMirrored(st, e) ==
    LET jumps == e.jump_pressed /\ e.is_on_floor
    IN  [x |-> IF e.movement_direction # 0
               THEN e.movement_direction * Units(speed)
               ELSE move_toward(st.x, 0, Units(speed) \div 2),
         y |-> IF jumps THEN Units(jump_velocity) ELSE st.y,
         ev |-> IF jumps THEN Write(st.ev, "PlaySfxEvent", "PlayerJump") ELSE st.ev,
         movement_occurred |-> st.movement_occurred \/ e.movement_direction # 0,
         last_movement_direction |-> 0 - e.movement_direction,
         processed_input |-> TRUE]

\* One iteration of the loop over the input events in apply_player_movement
MovementInput(st, e) ==
    LET jumps == e.jump_pressed /\ e.is_on_floor
    IN  [x |-> IF e.movement_direction # 0
               THEN e.movement_direction * Units(speed)
               ELSE move_toward(st.x, 0, Units(speed) \div 2),
         y |-> IF jumps THEN Units(jump_velocity) ELSE st.y,
         ev |-> IF jumps THEN Write(st.ev, "PlaySfxEvent", "PlayerJump") ELSE st.ev,
         movement_occurred |-> st.movement_occurred \/ e.movement_direction # 0,
         last_movement_direction |-> e.movement_direction,
         processed_input |-> TRUE]

RECURSIVE MovementInputs(_, _)
MovementInputs(st, evs) ==
    IF evs = <<>> THEN st
    ELSE MovementInputs(MovementInput(st, Head(evs)), Tail(evs))

\* The velocity apply_player_movement hands to set_velocity, with the events
\* it has written until then
Movement ==
    LET st == MovementInputs(
                  [x |-> body.vx,
                   y |-> IF ~body.on_floor THEN body.vy + GravityStep(input.dt)
                         ELSE body.vy,
                   ev |-> events, movement_occurred |-> FALSE,
                   last_movement_direction |-> 0, processed_input |-> FALSE],
                  Unread("apply_player_movement"))
    IN  IF st.processed_input THEN st
        ELSE [st EXCEPT !.x = move_toward(st.x, 0, Units(speed) \div 2)]

\* What CharacterBody2D::move_and_slide may leave behind when the body moves
\* with velocity <<x, y>>: the level's geometry decides whether the body
\* slides on or is stopped on either axis and whether it stands on the floor
\* afterwards; a body that moves upwards does not land, and the floor is
\* reached before the fall lasts longer than MaxFall ticks; in a flat level
\* (environment kind "flat") the body stands on the floor and meets no wall;
\* on sloped ground (environment kind "slope") the body stands on the floor
\* and the slide may also leave half of the horizontal velocity
MoveAndSlide(x, y) ==
    {b \in [valid : {TRUE},
            vx : IF "slope" \in env.kinds THEN {x, x \div 2, 0} ELSE {x, 0},
            vy : {y, 0}, on_floor : BOOLEAN] :
       /\ b.on_floor => y >= 0 /\ b.vy = 0
       /\ y > GravityStep(MaxDelta) * MaxFall => b.on_floor
       /\ "flat" \in env.kinds => b.on_floor /\ b.vx = x
       /\ "slope" \in env.kinds => b.on_floor}

apply_player_movement ==
    /\ Runs("apply_player_movement")
    /\ IF body.valid
       THEN LET st == Movement
            IN  /\ lastVelocity' = [x |-> st.x, y |-> st.y, from_x |-> body.vx]
                /\ \E b \in MoveAndSlide(st.x, st.y) :
                     /\ body' = b
                     /\ events' = Write(st.ev, "PlayerMovementEvent",
                                        [is_moving |-> st.movement_occurred,
                                         is_on_floor |-> b.on_floor,
                                         facing_left |-> st.last_movement_direction < 0])
                /\ cursor' = ReadAll("apply_player_movement")
       ELSE UNCHANGED <<body, lastVelocity, events, cursor>>
    /\ Finished("apply_player_movement")
    /\ UNCHANGED <<sysVars, panicked, stateVars, levelVars, assets, engineVars,
                   gemVars, hudVars, menuVars, sprite, audioVars>>

\* Variant: running takes precedence over being in the air
AnimateRunFirst(sp, e) ==
    [flip_h |-> e.facing_left,
     animation |-> IF e.is_moving THEN "run"
                   ELSE IF ~e.is_on_floor THEN "jump" ELSE "idle"]

\* One iteration of the loop over the movement events in
\* update_player_animation
Animate(sp, e) ==
    [flip_h |-> e.facing_left,
     animation |-> IF ~e.is_on_floor THEN "jump"
                   ELSE IF e.is_moving THEN "run" ELSE "idle"]

RECURSIVE Animations(_, _)
Animations(sp, evs) ==
    IF evs = <<>> THEN sp ELSE Animations(Animate(sp, Head(evs)), Tail(evs))

update_player_animation ==
    /\ Runs("update_player_animation")
    /\ IF body.valid
       THEN /\ sprite' = Animations(sprite, Unread("update_player_animation"))
            /\ cursor' = ReadAll("update_player_animation")
       ELSE UNCHANGED <<sprite, cursor>>
    /\ Finished("update_player_animation")
    /\ UNCHANGED <<sysVars, panicked, stateVars, levelVars, assets, events,
                   engineVars, gemVars, hudVars, menuVars, body, lastVelocity,
                   audioVars>>

(***************************************************************************)
(* gameplay/audio.rs                                                       *)
(***************************************************************************)
\* The track of a level
MusicFor(level_id) ==
    IF level_id \in {"Level1", "Level3"} THEN "action_theme" ELSE "waltz_theme"

\* Variant: the track of a level is started on top of what plays
LevelMusicWithoutStop(ch, e) == Append(ch, MusicFor(e.level_id))

\* One iteration of the loop of handle_level_music_change on the tracks ch of
\* the music channel: stop() silences the channel, play() adds the looped
\* track of the level
LevelMusic(ch, e) == Append(<<>>, MusicFor(e.level_id))

RECURSIVE LevelMusics(_, _)
LevelMusics(ch, evs) ==
    IF evs = <<>> THEN ch ELSE LevelMusics(LevelMusic(ch, Head(evs)), Tail(evs))

handle_level_music_change ==
    /\ Runs("handle_level_music_change")
    /\ in_state("InGame")
    /\ music' = LevelMusics(music, Unread("handle_level_music_change"))
    /\ cursor' = ReadAll("handle_level_music_change")
    /\ Finished("handle_level_music_change")
    /\ UNCHANGED <<sysVars, panicked, stateVars, levelVars, assets, events,
                   engineVars, gemVars, hudVars, menuVars, playerVars, sfx>>

\* The sound of a sound-effect request
SoundFor(e) == IF e = "PlayerJump" THEN "jump_sound" ELSE "gem_sound"

handle_sfx_events ==
    /\ Runs("handle_sfx_events")
    /\ in_state("InGame")
    /\ sfx' = sfx \o [i \in 1..Len(Unread("handle_sfx_events")) |->
                        SoundFor(Unread("handle_sfx_events")[i])]
    /\ cursor' = ReadAll("handle_sfx_events")
    /\ Finished("handle_sfx_events")
    /\ UNCHANGED <<sysVars, panicked, stateVars, levelVars, assets, events,
                   engineVars, gemVars, hudVars, menuVars, playerVars, music>>

\* Variant: leaving InGame leaves the music channel alone
keep_background_music == music

\* OnExit(GameState::InGame): the music channel is silenced
stop_background_music == <<>>

(***************************************************************************)
(* The engine between two frames: EndOfFrame ends the frame (frees queued  *)
(* nodes, performs the requested scene change), physics ticks follow, and  *)
(* FrameStart begins the next app.update(): Events::update, the engine's   *)
(* feeds are written, finished asset loads become visible and the pending  *)
(* state transition is applied                                             *)
(***************************************************************************)
Invalidated(h) == IF h = NoHandle THEN NoHandle ELSE [h EXCEPT !.valid = FALSE]
Staled(h) == IF h = None THEN None ELSE "Stale"

\* The player's body in a freshly mounted scene
BodyAtMount(sc) == [valid |-> sc \in LevelId, vx |-> 0, vy |-> 0, on_floor |-> FALSE]
SpriteAtMount == [animation |-> "", flip_h |-> FALSE]

\* Asset handles alive after the frame: the loading handle and the handles
\* inside the scene operations written in this frame
HeldHandles ==
    (IF loadingHandle # None THEN {loadingHandle} ELSE {})
      \cup {events["SceneOperationEvent"].b[i].arg :
              i \in {j \in 1..Len(events["SceneOperationEvent"].b) :
                       events["SceneOperationEvent"].b[j].op = "ChangeToPacked"}}

\* Asset server between frames: an asset nobody holds is dropped, a load in
\* progress may finish
AssetProgress ==
    {as \in [AssetPaths -> {"Unloaded", "Loading", "Loaded"}] :
       \A p \in AssetPaths :
          IF p \notin HeldHandles THEN as[p] = "Unloaded"
          ELSE IF assets[p] = "Loading" /\ ~(env.doors # <<>> /\ scene \in LevelId)
          THEN as[p] \in {"Loading", "Loaded"}
          ELSE as[p] = assets[p]}

InvalidatedSignals(evs) ==
    [i \in 1..Len(evs) |-> [evs[i] EXCEPT !.target = Invalidated(@)]]

\* Presses the engine may report for the scene sc with listeners conn
SignalTargets(sc, conn) ==
    {Handle(b) : b \in {c \in Buttons : sc = MainMenuScene /\ conn[c] > 0}}
      \cup {Invalidated(Handle("StartButton"))}

RECURSIVE Copies(_, _)
Copies(e, n) == IF n = 0 THEN <<>> ELSE <<e>> \o Copies(e, n - 1)

\* One record per listener connected to the pressed button
RECURSIVE SignalRecords(_, _)
SignalRecords(presses, conn) ==
    IF presses = <<>> THEN <<>>
    ELSE Copies([target |-> Head(presses), name |-> "pressed"],
                IF HandleValid(Head(presses)) THEN conn[Head(presses).node] ELSE 1)
         \o SignalRecords(Tail(presses), conn)

\* The presses the engine may report in one frame
SignalPresses(sc, conn) ==
    IF "signal" \in env.kinds
    THEN SeqsUpTo(SignalTargets(sc, conn), MaxSignals) ELSE {<<>>}

\* Number of records in the lists coll, from gem number i on
RECURSIVE GemHits(_, _)
GemHits(coll, i) ==
    IF i > Len(Gems) THEN 0 ELSE Len(coll[Gems[i]]) + GemHits(coll, i + 1)

\* Recent-collision lists the gems may report in one frame: gem -> entities
GemCollisions(sc) ==
    IF sc \in LevelId /\ "gem" \in env.kinds
    THEN {coll \in [GemSet -> SeqsUpTo(IF "enemy" \in env.kinds
                                        THEN Entities ELSE {"Player"},
                                      MaxCollisions)] :
            GemHits(coll, 1) <= env.inputs}
    ELSE {[g \in GemSet |-> <<>>]}

\* What Input::singleton() and PhysicsDelta report in one physics tick: the
\* axis move_left/move_right, whether jump was just pressed, and the length
\* of the tick in units of 1 / TicksPerSecond seconds
PlayerInputs(sc) ==
    IF sc \in LevelId /\ "player" \in env.kinds
    THEN [axis : {-1, 0, 1}, jump : BOOLEAN, dt : 1..MaxDelta]
    ELSE IF sc \in LevelId /\ "run" \in env.kinds
    THEN [axis : {-1, 0, 1}, jump : {FALSE}, dt : 1..MaxDelta]
    ELSE IF sc \in LevelId /\ "move" \in env.kinds
    THEN [axis : {0, 1}, jump : {FALSE}, dt : {1}]
    ELSE {[axis |-> 0, jump |-> FALSE, dt |-> 1]}

NoInput == [reset |-> FALSE, menu |-> FALSE, doors |-> <<>>,
            gems |-> [g \in GemSet |-> <<>>], presses |-> <<>>,
            axis |-> 0, jump |-> FALSE, dt |-> 1]

\* What the input inp takes from the environment's budget
InputCost(inp) ==
    (IF inp.reset THEN 1 ELSE 0) + (IF inp.menu THEN 1 ELSE 0)
      + (IF "door" \in env.kinds THEN Len(inp.doors) ELSE 0)
      + GemHits(inp.gems, 1) + Len(inp.presses)

\* What the physics tick's input k takes from the environment's budget
PlayerInputCost(k) ==
    IF "player" \in env.kinds \/ "run" \in env.kinds
    THEN (IF scene \in LevelId THEN 1 ELSE 0)
    ELSE IF "move" \in env.kinds /\ k.axis # 0 THEN 1 ELSE 0

\* The inputs the engine may present in a frame that starts in state st with
\* scene sc mounted and conn listeners connected
Inputs(st, sc, conn) ==
    {inp \in
       {[reset |-> r, menu |-> m, doors |-> d, gems |-> g, presses |-> p,
         axis |-> 0, jump |-> FALSE, dt |-> 1] :
          r \in (IF st = "InGame" /\ "reset" \in env.kinds THEN BOOLEAN ELSE {FALSE}),
          m \in (IF st = "InGame" /\ "menu" \in env.kinds THEN BOOLEAN ELSE {FALSE}),
          d \in DoorCollisions(sc), g \in GemCollisions(sc),
          p \in SignalPresses(sc, conn)} :
       InputCost(inp) <= env.inputs}

\* What is left to the environment after the input inp
EnvAfter(inp) ==
    [env EXCEPT !.inputs = @ - InputCost(inp),
                !.doors = SubSeq(@, Len(inp.doors) + 1, Len(@))]

\* Variant: a state transition without the OnEnter(MainMenu) system
StateTransitionWithoutOnEnter(assetsAfterFlush) ==
    /\ gameState' = IF nextState # None THEN nextState ELSE gameState
    /\ nextState' = None
    /\ menuAssets' = assetsAfterFlush

\* The StateTransition schedule with its OnEnter / OnExit systems
StateTransition(assetsAfterFlush) ==
    IF nextState # None
    THEN /\ gameState' = nextState
         /\ nextState' = None
         /\ menuAssets' = IF nextState = "MainMenu" /\ gameState # "MainMenu"
                          THEN MenuAssetsEmpty ELSE assetsAfterFlush
    ELSE /\ gameState' = gameState
         /\ nextState' = None
         /\ menuAssets' = assetsAfterFlush

\* The engine's end of frame: the scene change requested in the frame is
\* carried out, which frees the nodes of the old scene (the handles that name
\* them turn invalid, the player's among them) and queues the scene-tree
\* records of the change; nodes given to queue_free are freed
EndOfFrame ==
    /\ ~panicked
    /\ ~quitRequested
    /\ frame = "update"
    /\ UpdateSettled
    /\ LET mounted == sceneRequest # None
           newScene == IF mounted THEN sceneRequest ELSE scene
       IN  /\ scene' = newScene
           /\ sceneRequest' = None
           /\ treeFeed' = IF mounted THEN SceneTreeFeed(scene, newScene) ELSE <<>>
           /\ connections' = IF mounted THEN [b \in Buttons |-> 0] ELSE connections
           /\ gemNodes' = IF mounted
                          THEN [g \in GemSet |->
                                  IF newScene \in LevelId THEN "Alive" ELSE "Freed"]
                          ELSE [g \in GemSet |->
                                  IF gemNodes[g] = "Queued" THEN "Freed" ELSE gemNodes[g]]
           /\ events' = IF mounted
                        THEN [events EXCEPT !["GodotSignal"].a = InvalidatedSignals(@),
                                            !["GodotSignal"].b = InvalidatedSignals(@),
                                            !["SceneTreeEvent"].a = FreedNodes(@),
                                            !["SceneTreeEvent"].b = FreedNodes(@)]
                        ELSE events
           /\ hudHandles' = IF mounted
                            THEN [current_level_label |-> Staled(hudHandles.current_level_label),
                                  gems_label |-> Staled(hudHandles.gems_label)]
                            ELSE hudHandles
           /\ menuAssets' = IF mounted
                            THEN [menuAssets EXCEPT
                                    !.start_button = Invalidated(@),
                                    !.fullscreen_button = Invalidated(@),
                                    !.quit_button = Invalidated(@)]
                            ELSE menuAssets
           /\ labels' = IF mounted THEN SceneDefaultLabels ELSE labels
           /\ body' = IF mounted THEN [body EXCEPT !.valid = FALSE] ELSE body
           /\ sprite' = IF mounted THEN SpriteAtMount ELSE sprite
    /\ frame' = "ended"
    /\ UNCHANGED <<systems, env, input, physicsTicks, ran, panicked, stateVars,
                   levelVars, assets, cursor, gemsCollected, windowMode,
                   quitRequested, lastVelocity, audioVars>>

\* _physics_process: a physics tick begins after the engine's end of frame
\* and before the next app.update(); the engine runs any number of them, none
\* included, in a rendered frame
PhysicsTick ==
    /\ ~panicked
    /\ ~quitRequested
    /\ systems \cap PlayerSystems # {}
    /\ frame = "ended"
    /\ TickComplete
    /\ physicsTicks < MaxTicks
    /\ physicsTicks' = physicsTicks + 1
    /\ ran' = ran \ PlayerSystems
    /\ \E k \in PlayerInputs(scene) :
         /\ PlayerInputCost(k) <= env.inputs
         /\ input' = [input EXCEPT !.axis = k.axis, !.jump = k.jump, !.dt = k.dt]
         /\ env' = [env EXCEPT !.inputs = @ - PlayerInputCost(k)]
    /\ UNCHANGED <<systems, frame, treeFeed, panicked, stateVars, levelVars, assets,
                   events, cursor, engineVars, gemVars, hudVars, restVars>>

\* The start of app.update(): the First schedule (Events::update, the queued
\* scene-tree records and signals become events, the entities of a newly
\* mounted scene are created) and the StateTransition schedule; the frame's
\* input is what the Update systems will read
FrameStart ==
    /\ ~panicked
    /\ ~quitRequested
    /\ frame = "ended"
    /\ TickComplete
    /\ \E inp \in Inputs(IF nextState # None THEN nextState ELSE gameState,
                          scene, connections) :
         /\ input' = inp
         /\ env' = EnvAfter(inp)
         /\ events' = [EventsUpdate(events) EXCEPT
                         !["SceneTreeEvent"].b = treeFeed,
                         !["GodotSignal"].b = SignalRecords(inp.presses, connections)]
    /\ treeFeed' = <<>>
    /\ body' = IF treeFeed # <<>> THEN BodyAtMount(scene) ELSE body
    /\ cursor' = CursorUpdate(events, cursor)
    /\ assets' \in AssetProgress
    /\ StateTransition(menuAssets)
    /\ music' = IF nextState # None /\ nextState # gameState /\ gameState = "InGame"
                 THEN stop_background_music ELSE music
    /\ sfx' = <<>>
    /\ ran' = {}
    /\ physicsTicks' = 0
    /\ frame' = "update"
    /\ UNCHANGED <<systems, panicked, levelVars, engineVars, gemVars, hudVars,
                   connections, windowMode, quitRequested, sprite, lastVelocity>>

(***************************************************************************)
(* Initial states                                                          *)
(***************************************************************************)
NoEvents == [t \in EventTypes |-> [a |-> <<>>, b |-> <<>>]]

\* Every resource at its Default, the main menu scene mounted, a frame about
\* to start
Defaults ==
    /\ ran = {}
    /\ panicked = FALSE
    /\ nextState = None
    /\ currentLevel = None
    /\ pendingLevel = None
    /\ loadingHandle = None
    /\ assets = [p \in AssetPaths |-> "Unloaded"]
    /\ events = NoEvents
    /\ cursor = [s \in ReaderSystems |-> 0]
    /\ scene = MainMenuScene
    /\ sceneRequest = None
    /\ gemsCollected = 0
    /\ gemNodes = [g \in GemSet |-> "Freed"]
    /\ hudHandles = HudHandlesCleared
    /\ labels = SceneDefaultLabels
    /\ menuAssets = MenuAssetsEmpty
    /\ connections = [b \in Buttons |-> 0]
    /\ windowMode = "WINDOWED"
    /\ quitRequested = FALSE
    /\ body = BodyAtMount(MainMenuScene)
    /\ sprite = SpriteAtMount
    /\ lastVelocity = [x |-> 0, y |-> 0, from_x |-> 0]
    /\ music = <<>>
    /\ sfx = <<>>
    /\ physicsTicks = 0
    /\ frame = "update"
    /\ treeFeed = <<>>

\* The MainMenu state has just been entered (OnEnter: reset_menu_assets)
MenuEntered == gameState = "MainMenu" /\ Defaults

\* The end of the frame in which the Start button was pressed: the state is
\* about to become InGame and the load of Level1 has been requested
StartPressed ==
    /\ ran = systems
    /\ panicked = FALSE
    /\ gameState = "MainMenu"
    /\ nextState = "InGame"
    /\ currentLevel = None
    /\ pendingLevel = None
    /\ loadingHandle = None
    /\ assets = [p \in AssetPaths |-> "Unloaded"]
    /\ events = Write(NoEvents, "LoadLevelEvent", [level_id |-> "Level1"])
    /\ cursor = [s \in ReaderSystems |-> 0]
    /\ scene = MainMenuScene
    /\ sceneRequest = None
    /\ gemsCollected = 0
    /\ gemNodes = [g \in GemSet |-> "Freed"]
    /\ hudHandles = HudHandlesCleared
    /\ labels = SceneDefaultLabels
    /\ menuAssets = [start_button |-> Handle("StartButton"),
                     fullscreen_button |-> Handle("FullscreenButton"),
                     quit_button |-> Handle("QuitButton"),
                     initialized |-> TRUE, signals_connected |-> TRUE]
    /\ connections = [b \in Buttons |-> 1]
    /\ windowMode = "WINDOWED"
    /\ quitRequested = FALSE
    /\ body = BodyAtMount(MainMenuScene)
    /\ sprite = SpriteAtMount
    /\ lastVelocity = [x |-> 0, y |-> 0, from_x |-> 0]
    /\ music = <<>>
    /\ sfx = <<>>
    /\ physicsTicks = 0
    /\ frame = "update"
    /\ treeFeed = <<>>

\* The environment: inputs is the number of inputs it may still produce, kinds
\* their kinds (reset / menu key, door / gem touched by the player, UI signal,
\* enemy: bodies other than the player touch doors and gems too); doors is
\* a fixed plan of door touches (used when "door" is not among the kinds);
\* once a level is mounted no asset load finishes before the plan is through
Env(inputs, kinds, doors) == [inputs |-> inputs, kinds |-> kinds, doors |-> doors]

(***************************************************************************)
(* Level loading: the level manager, the scene dispatcher, the doors and   *)
(* the orchestrator                                                        *)
(***************************************************************************)
LevelSpecSystems ==
    LevelManagerSystems \cup SceneSystems \cup DoorSystems \cup OrchestratorSystems

InitLevel ==
    /\ systems = LevelSpecSystems
    /\ env = Env(MaxInputs, {"reset", "menu", "door"}, <<>>)
    /\ input = NoInput
    /\ StartPressed

NextLevel ==
    \/ handle_level_load_requests
    \/ handle_level_scene_change
    \/ emit_level_loaded_event_when_scene_ready
    \/ process_scene_operations
    \/ detect_door_collisions
    \/ detect_reset_level_input
    \/ detect_return_to_menu_input
    \/ handle_reset_level_events
    \/ handle_return_to_menu_events
    \/ EndOfFrame
    \/ FrameStart

SpecLevel == InitLevel /\ [][NextLevel]_vars

(***************************************************************************)
(* Playing a level: the level manager and the scene dispatcher together    *)
(* with the gems, the HUD and the reset key                                *)
(***************************************************************************)
PlaySystems == LevelManagerSystems \cup SceneSystems \cup GemSystems \cup HudSystems

InitPlay ==
    /\ systems = PlaySystems \cup ResetSystems
    /\ env = Env(MaxInputs, {"reset", "gem", "enemy"}, <<>>)
    /\ input = NoInput
    /\ StartPressed

NextPlaySystems ==
    \/ handle_level_load_requests
    \/ handle_level_scene_change
    \/ emit_level_loaded_event_when_scene_ready
    \/ process_scene_operations
    \/ detect_gem_player_collision
    \/ handle_gem_collected_events
    \/ setup_hud_on_level_loaded
    \/ generate_hud_update_events
    \/ handle_hud_update_events
    \/ EndOfFrame
    \/ FrameStart

NextPlay ==
    \/ NextPlaySystems
    \/ detect_reset_level_input
    \/ handle_reset_level_events

SpecPlay == InitPlay /\ [][NextPlay]_vars

(***************************************************************************)
(* Leaving a level: the same with the menu key instead of the reset key    *)
(***************************************************************************)
InitReturn ==
    /\ systems = PlaySystems \cup ReturnSystems
    /\ env = Env(MaxInputs, {"menu", "gem"}, <<>>)
    /\ input = NoInput
    /\ StartPressed

NextReturn ==
    \/ NextPlaySystems
    \/ detect_return_to_menu_input
    \/ handle_return_to_menu_events

SpecReturn == InitReturn /\ [][NextReturn]_vars

(***************************************************************************)
(* The main menu: from the entry into the MainMenu state through the Start *)
(* button into the game and back with the menu key                         *)
(***************************************************************************)
InitMenu ==
    /\ systems = MenuSystems \cup LevelManagerSystems \cup SceneSystems \cup ReturnSystems
    /\ env = Env(MaxInputs, {"signal", "menu"}, <<>>)
    /\ input = NoInput
    /\ MenuEntered

NextMenu ==
    \/ init_menu_assets
    \/ connect_buttons
    \/ listen_for_button_press
    \/ handle_level_load_requests
    \/ handle_level_scene_change
    \/ emit_level_loaded_event_when_scene_ready
    \/ process_scene_operations
    \/ detect_return_to_menu_input
    \/ handle_return_to_menu_events
    \/ EndOfFrame
    \/ FrameStart

SpecMenu == InitMenu /\ [][NextMenu]_vars

\* The same with the schedules run frame after frame: some system or the
\* end or the start of a frame is always taken when one can be
LiveSpecMenu == InitMenu /\ [][NextMenu]_vars /\ WF_vars(NextMenu)

(***************************************************************************)
(* Walking through doors: the level manager, the scene dispatcher, the     *)
(* doors and the HUD                                                       *)
(***************************************************************************)
InitDoors ==
    /\ systems = LevelManagerSystems \cup SceneSystems \cup DoorSystems \cup HudSystems
    /\ env = Env(MaxInputs, {"door"}, <<>>)
    /\ input = NoInput
    /\ StartPressed

NextDoors ==
    \/ handle_level_load_requests
    \/ handle_level_scene_change
    \/ emit_level_loaded_event_when_scene_ready
    \/ process_scene_operations
    \/ detect_door_collisions
    \/ setup_hud_on_level_loaded
    \/ handle_hud_update_events
    \/ EndOfFrame
    \/ FrameStart

SpecDoors == InitDoors /\ [][NextDoors]_vars

(***************************************************************************)
(* Superseded load: the player touches the door to Level2 and then the door *)
(* to Level3 before any of the two loads finishes; no other input           *)
(***************************************************************************)
SupersedeSystems == LevelManagerSystems \cup SceneSystems \cup DoorSystems

InitSupersede ==
    /\ systems = SupersedeSystems
    /\ env = Env(0, {}, <<"Level2", "Level3">>)
    /\ input = NoInput
    /\ StartPressed

NextSupersede ==
    \/ handle_level_load_requests
    \/ handle_level_scene_change
    \/ emit_level_loaded_event_when_scene_ready
    \/ process_scene_operations
    \/ detect_door_collisions
    \/ EndOfFrame
    \/ FrameStart

SpecSupersede == InitSupersede /\ [][NextSupersede]_vars

(***************************************************************************)
(* Background music: the level manager, the scene dispatcher, the doors,    *)
(* the orchestrator and the music of the levels                             *)
(***************************************************************************)
InitMusic ==
    /\ systems = LevelSpecSystems \cup {"handle_level_music_change"}
    /\ env = Env(MaxInputs, {"reset", "menu", "door"}, <<>>)
    /\ input = NoInput
    /\ StartPressed

NextMusic ==
    \/ NextLevel
    \/ handle_level_music_change

SpecMusic == InitMusic /\ [][NextMusic]_vars

(***************************************************************************)
(* Sound in and out of the game: the main menu, the level manager, the     *)
(* scene dispatcher, the menu key, the gems and both audio systems         *)
(***************************************************************************)
InitAudio ==
    /\ systems = MenuSystems \cup LevelManagerSystems \cup SceneSystems
                    \cup ReturnSystems \cup GemSystems \cup AudioSystems
    /\ env = Env(MaxInputs, {"signal", "menu", "gem"}, <<>>)
    /\ input = NoInput
    /\ StartPressed

NextAudio ==
    \/ NextMenu
    \/ detect_gem_player_collision
    \/ handle_gem_collected_events
    \/ handle_level_music_change
    \/ handle_sfx_events

SpecAudio == InitAudio /\ [][NextAudio]_vars

(***************************************************************************)
(* Loads until the end: the same systems with any doors touched, ticking    *)
(* fairly, and the asset server finishing the load in flight               *)
(***************************************************************************)
InitLoads ==
    /\ systems = SupersedeSystems
    /\ env = Env(MaxInputs, {"door"}, <<>>)
    /\ input = NoInput
    /\ StartPressed

\* A frame starts and the asset of the load in flight is loaded
AssetBecomesReady ==
    /\ FrameStart
    /\ loadingHandle # None => assets'[loadingHandle] = "Loaded"

\* The frames keep coming; a frame can start once in every turn of the
\* engine's loop, and of the frames that start while a load is in flight one
\* finds the asset loaded
LiveSpecLoads ==
    /\ InitLoads
    /\ [][NextSupersede]_vars
    /\ WF_vars(NextSupersede)
    /\ SF_vars(AssetBecomesReady)

(***************************************************************************)
(* A whole tick: the chained systems of the player, the gems and the       *)
(* orchestrator in a flat level, with the level manager and the scene      *)
(* dispatcher                                                              *)
(***************************************************************************)
InitTick ==
    /\ systems = LevelManagerSystems \cup SceneSystems \cup GemSystems
                   \cup OrchestratorSystems \cup PlayerSystems
    /\ env = Env(MaxInputs, {"gem", "reset", "menu", "move", "flat"}, <<>>)
    /\ input = NoInput
    /\ StartPressed

NextTick ==
    \/ handle_level_load_requests
    \/ handle_level_scene_change
    \/ emit_level_loaded_event_when_scene_ready
    \/ process_scene_operations
    \/ detect_gem_player_collision
    \/ handle_gem_collected_events
    \/ detect_reset_level_input
    \/ detect_return_to_menu_input
    \/ handle_reset_level_events
    \/ handle_return_to_menu_events
    \/ detect_player_input
    \/ apply_player_movement
    \/ update_player_animation
    \/ PhysicsTick
    \/ EndOfFrame
    \/ FrameStart

SpecTick == InitTick /\ [][NextTick]_vars

(***************************************************************************)
(* The scene dispatcher alone, serving any requester: at the end of the    *)
(* frame of the Start press up to MaxOps scene operations are queued, any   *)
(* of them a change to a packed scene whose asset is unloaded, loading,     *)
(* loaded, or no scene                                                      *)
(***************************************************************************)
QueuedOperations ==
    {reload, change_to_file(MainMenuFile)}
      \cup {change_to_packed(p) : p \in AssetPaths}

InitDispatcher ==
    /\ systems = LevelManagerSystems \cup SceneSystems
    /\ env = Env(0, {}, <<>>)
    /\ input = NoInput
    /\ ran = systems
    /\ panicked = FALSE
    /\ gameState = "MainMenu"
    /\ nextState = "InGame"
    /\ currentLevel = None
    /\ pendingLevel = None
    /\ loadingHandle = None
    /\ \E ops \in SeqsUpTo(QueuedOperations, MaxOps) :
         /\ events = [Write(NoEvents, "LoadLevelEvent", [level_id |-> "Level1"])
                        EXCEPT !["SceneOperationEvent"].b = ops]
         /\ assets \in {as \in [AssetPaths -> {"Unloaded", "Loading", "Loaded"}] :
                          \A p \in AssetPaths :
                             as[p] # "Unloaded" =>
                               \E i \in 1..Len(ops) : ops[i] = change_to_packed(p)}
    /\ cursor = [s \in ReaderSystems |-> 0]
    /\ scene = MainMenuScene
    /\ sceneRequest = None
    /\ gemsCollected = 0
    /\ gemNodes = [g \in GemSet |-> "Freed"]
    /\ hudHandles = HudHandlesCleared
    /\ labels = SceneDefaultLabels
    /\ menuAssets = MenuAssetsEmpty
    /\ connections = [b \in Buttons |-> 0]
    /\ windowMode = "WINDOWED"
    /\ quitRequested = FALSE
    /\ body = BodyAtMount(MainMenuScene)
    /\ sprite = SpriteAtMount
    /\ lastVelocity = [x |-> 0, y |-> 0, from_x |-> 0]
    /\ music = <<>>
    /\ sfx = <<>>
    /\ physicsTicks = 0
    /\ frame = "update"
    /\ treeFeed = <<>>

NextDispatcher ==
    \/ handle_level_load_requests
    \/ handle_level_scene_change
    \/ emit_level_loaded_event_when_scene_ready
    \/ process_scene_operations
    \/ EndOfFrame
    \/ FrameStart

SpecDispatcher == InitDispatcher /\ [][NextDispatcher]_vars

(***************************************************************************)
(* The player: Level1 is loaded after the Start press, then the player is   *)
(* moved tick by tick                                                       *)
(***************************************************************************)
InitPlayer ==
    /\ systems = LevelManagerSystems \cup SceneSystems \cup PlayerSystems
    /\ env = Env(MaxMoves, {"player"}, <<>>)
    /\ input = NoInput
    /\ StartPressed

NextPlayer ==
    \/ handle_level_load_requests
    \/ handle_level_scene_change
    \/ emit_level_loaded_event_when_scene_ready
    \/ process_scene_operations
    \/ detect_player_input
    \/ apply_player_movement
    \/ update_player_animation
    \/ PhysicsTick
    \/ EndOfFrame
    \/ FrameStart

SpecPlayer == InitPlayer /\ [][NextPlayer]_vars

(***************************************************************************)
(* Deceleration: Level1 is loaded after the Start press, then the player   *)
(* runs to either side or lets go, tick by tick, on sloped ground, so that *)
(* a tick can start from a velocity that is no multiple of the step        *)
(***************************************************************************)
InitDecel ==
    /\ systems = LevelManagerSystems \cup SceneSystems \cup PlayerSystems
    /\ env = Env(MaxRun, {"run", "slope"}, <<>>)
    /\ input = NoInput
    /\ StartPressed

NextDecel ==
    \/ handle_level_load_requests
    \/ handle_level_scene_change
    \/ emit_level_loaded_event_when_scene_ready
    \/ process_scene_operations
    \/ detect_player_input
    \/ apply_player_movement
    \/ update_player_animation
    \/ PhysicsTick
    \/ EndOfFrame
    \/ FrameStart

SpecDecel == InitDecel /\ [][NextDecel]_vars

\* The events of type t in the queue
Queued(t) == events[t].a \o events[t].b

\* Some event of type t in the queue carries the level
Carries(t, level) == \E i \in 1..Len(Queued(t)) : Queued(t)[i].level_id = level

\* C1: when LoadLevelEvent(Level2) and then LoadLevelEvent(Level3) are issued
\* before the Level2 asset is ready, and nothing else is input, no
\* LevelLoadedEvent carrying Level2 is ever emitted (only Level3 is announced).
C1_NoLevel2Loaded == ~Carries("LevelLoadedEvent", "Level2")


(***************************************************************************)
(* Properties of steps                                                     *)
(***************************************************************************)
\* System s runs in this step
Step(s) == s \in ran' /\ s \notin ran

\* The events of type t written in this step
Emitted(t) ==
    IF Len(events'[t].b) > Len(events[t].b)
    THEN SubSeq(events'[t].b, Len(events[t].b) + 1, Len(events'[t].b))
    ELSE <<>>

\* The level manager is waiting for level l (the scene change to l has been
\* requested) and now reads a node-added record with l's root path
NodeAddedObserved(l) ==
    /\ pendingLevel = l
    /\ \E i \in 1..Len(Unread("emit_level_loaded_event_when_scene_ready")) :
         LET rec == Unread("emit_level_loaded_event_when_scene_ready")[i]
         IN  rec.event_type = "NodeAdded" /\ rec.path = "/root/" \o l

C3_CounterCountsEvents ==
    [][/\ gemsCollected' >= 0
       /\ Step("handle_gem_collected_events") =>
            gemsCollected' =
               gemsCollected + Len(Unread("handle_gem_collected_events"))
       /\ (gemsCollected' # gemsCollected) =>
            \/ Step("handle_gem_collected_events")
            \/ Step("handle_reset_level_events")
            \/ Step("handle_return_to_menu_events")]_vars

\* Two events have been counted in one run of handle_gem_collected_events
C3_Witness ==
    /\ "handle_gem_collected_events" \in ran
    /\ gemsCollected = 2
    /\ Len(events["GemCollectedEvent"].b) = 2

\* Number of GemCollectedEvents for gem g among evs
RECURSIVE EventsOfGem(_, _)
EventsOfGem(evs, g) ==
    IF evs = <<>> THEN 0
    ELSE (IF Head(evs).gem_entity = g THEN 1 ELSE 0) + EventsOfGem(Tail(evs), g)

\* C4: for every gem at most one GemCollectedEvent is emitted, even when its
\* recent-collision list holds several records of the player in one tick.
C4_OneEventPerGem ==
    \A g \in GemSet : EventsOfGem(Queued("GemCollectedEvent"), g) <= 1

\* C5: processing a reset input sets GemsCollected to 0, clears HudHandles,
\* requests exactly one reload-current scene operation, re-emits
\* LevelLoadedEvent(L) when CurrentLevel = Some(L) and none when it is None,
\* and requests no asset load: no LoadLevelEvent, loading handle, PendingLevel
\* and CurrentLevel unchanged.
C5_ResetEffect ==
    [][Step("handle_reset_level_events") =>
          /\ gemsCollected' = 0
          /\ hudHandles' = [current_level_label |-> None, gems_label |-> None]
          /\ Emitted("SceneOperationEvent") = << [op |-> "ReloadCurrent", arg |-> None] >>
          /\ Emitted("LevelLoadedEvent") =
                IF currentLevel # None
                THEN << [level_id |-> currentLevel] >> ELSE <<>>
          /\ Emitted("LoadLevelEvent") = <<>>
          /\ UNCHANGED <<loadingHandle, pendingLevel, currentLevel, assets>>]_vars

\* A reset has been processed in a level in which a gem had been collected
C5_Witness ==
    /\ "handle_reset_level_events" \in ran
    /\ currentLevel = "Level1"
    /\ scene = "Level1"
    /\ gemsCollected = 0
    /\ \E g \in GemSet : gemNodes[g] = "Freed"
    /\ Carries("LevelLoadedEvent", "Level1")

\* C6: processing a return-to-menu input in InGame sets GemsCollected to 0,
\* clears HudHandles, sets CurrentLevel to None, requests the MainMenu state
\* (entered at the next state transition) and requests exactly one
\* change-to-file scene operation for the main-menu scene.
C6_ReturnEffect ==
    [][/\ Step("handle_return_to_menu_events") =>
            /\ gameState = "InGame"
            /\ gemsCollected' = 0
            /\ hudHandles' = [current_level_label |-> None, gems_label |-> None]
            /\ currentLevel' = None
            /\ nextState' = "MainMenu"
            /\ Emitted("SceneOperationEvent") =
                  << [op |-> "ChangeToFile",
                      arg |-> "res://scenes/levels/main_menu.tscn"] >>
       /\ (nextState = "MainMenu" /\ ran # {} /\ ran' = {}) =>
            gameState' = "MainMenu"]_vars

\* The return to the menu has been processed in a level with a gem collected
C6_Witness ==
    /\ "handle_return_to_menu_events" \in ran
    /\ nextState = "MainMenu"
    /\ currentLevel = None
    /\ scene = "Level1"
    /\ gemsCollected = 0
    /\ \E g \in GemSet : gemNodes[g] = "Freed"


\* The 'pressed' signals of the live Start button among the records evs
LiveStartPresses(evs) ==
    {i \in 1..Len(evs) :
       /\ evs[i].name = "pressed"
       /\ evs[i].target = [node |-> "StartButton", valid |-> TRUE]}

\* C7: in MainMenu with the signals connected, a 'pressed' signal of the live
\* Start button requests the InGame state (entered at the next state
\* transition) and emits LoadLevelEvent(Level1); press signals whose target
\* node has been freed change nothing: game state, MenuAssets and the event
\* queues stay as they are.
C7_StartPressed ==
    [][/\ (Step("listen_for_button_press") /\ menuAssets.signals_connected) =>
            LET evs == Unread("listen_for_button_press")
            IN  /\ gameState = "MainMenu"
                /\ LiveStartPresses(evs) # {} =>
                     /\ nextState' = "InGame"
                     /\ Emitted("LoadLevelEvent") =
                           [i \in 1..Cardinality(LiveStartPresses(evs)) |->
                              [level_id |-> "Level1"]]
                /\ (\A i \in 1..Len(evs) : ~evs[i].target.valid) =>
                     UNCHANGED <<gameState, nextState, menuAssets, events,
                                 windowMode, quitRequested>>
       /\ (nextState = "InGame" /\ ran # {} /\ ran' = {}) => gameState' = "InGame"]_vars

\* The press of the live Start button has just been handled
C7_Witness ==
    /\ "listen_for_button_press" \in ran
    /\ gameState = "MainMenu"
    /\ menuAssets.signals_connected
    /\ nextState = "InGame"
    /\ Carries("LoadLevelEvent", "Level1")


\* C8: once the HUD has processed a LevelLoadedEvent after HudHandles was last
\* cleared (the handles are cached) and has read every HudUpdateEvent, the
\* gems label reads "Gems: n", n being the value of the most recent GemsChanged.
C8_LabelShowsLastGemsChanged ==
    (/\ hudHandles.gems_label # None
     /\ Queued("HudUpdateEvent") # <<>>
     /\ Unread("handle_hud_update_events") = <<>>)
      => labels.gems =
            "Gems: " \o ToString(Queued("HudUpdateEvent")[Len(Queued("HudUpdateEvent"))].count)

\* C9: HudHandles never caches a label of a scene that has been reloaded or
\* replaced (it is cleared before the scene operation takes effect), and no
\* HUD update goes through such a handle.
C9_NoStaleHandle ==
    /\ hudHandles.gems_label # "Stale"
    /\ hudHandles.current_level_label # "Stale"
    /\ ~panicked

\* The input events apply_player_movement is about to read that ask for a
\* jump while the player stands on the floor
Jumpers ==
    {i \in 1..Len(Unread("apply_player_movement")) :
       /\ Unread("apply_player_movement")[i].jump_pressed
       /\ Unread("apply_player_movement")[i].is_on_floor}

\* The jump sounds requested in this step
JumpSounds ==
    {i \in 1..Len(Emitted("PlaySfxEvent")) : Emitted("PlaySfxEvent")[i] = "PlayerJump"}

\* C10: apply_player_movement sets the vertical velocity to the jump velocity
\* and requests the PlayerJump sound only for an input event with jump_pressed
\* and is_on_floor both true; when the input event has jump_pressed true and
\* is_on_floor false, the vertical velocity it sets is the previous one plus
\* gravity * delta_seconds and no jump sound is requested
C10_JumpNeedsFloor ==
    [][Step("apply_player_movement") /\ body.valid =>
         /\ Jumpers # {} =>
              /\ lastVelocity'.y = jump_velocity * TicksPerSecond
              /\ Cardinality(JumpSounds) = Cardinality(Jumpers)
         /\ Jumpers = {} =>
              /\ lastVelocity'.y = IF body.on_floor THEN body.vy
                                   ELSE body.vy + gravity * input.dt
              /\ JumpSounds = {}
         /\ \A i \in 1..Len(Unread("apply_player_movement")) :
              LET e == Unread("apply_player_movement")[i]
              IN  e.jump_pressed /\ ~e.is_on_floor /\ Jumpers = {} =>
                    /\ lastVelocity'.y = body.vy + gravity * input.dt
                    /\ JumpSounds = {}]_vars

\* Two physics ticks after Level1 was mounted: jump was pressed in the air in
\* the first, which brought the body to the floor without a jump, and pressed
\* again on the floor in the second, whose movement has been applied as a
\* jump with its sound
C10_Witness ==
    /\ "apply_player_movement" \in ran
    /\ Len(Queued("PlayerInputEvent")) = 2
    /\ Queued("PlayerInputEvent")[1].jump_pressed
    /\ ~Queued("PlayerInputEvent")[1].is_on_floor
    /\ Queued("PlayerInputEvent")[2].jump_pressed
    /\ Queued("PlayerInputEvent")[2].is_on_floor
    /\ Queued("PlaySfxEvent") = <<"PlayerJump">>
    /\ lastVelocity.y = jump_velocity * TicksPerSecond


\* Every input event apply_player_movement is about to read has direction 0
\* (with no event at all the fallback decelerates in the same way)
NeutralTick ==
    \A i \in 1..Len(Unread("apply_player_movement")) :
       Unread("apply_player_movement")[i].movement_direction = 0

\* C11 as stated: in every tick with input direction 0 the magnitude of the
\* horizontal velocity strictly decreases and the velocity keeps its sign
C11_StrictlyDecreases ==
    [][Step("apply_player_movement") /\ body.valid /\ NeutralTick =>
         /\ Abs(lastVelocity'.x) < Abs(body.vx)
         /\ lastVelocity'.x * body.vx >= 0]_vars

\* C11, amended: in every tick with input direction 0 the magnitude of the
\* horizontal velocity decreases by speed / 2, clamped at 0: it strictly
\* decreases while the velocity is not 0, stays 0 once it is 0, never
\* increases, and the velocity never changes sign
C11_DecelerationClamped ==
    [][Step("apply_player_movement") /\ body.valid /\ NeutralTick
         /\ Len(Unread("apply_player_movement")) <= 1 =>
         /\ Abs(lastVelocity'.x)
              = Max(Abs(body.vx) - (speed * TicksPerSecond) \div 2, 0)
         /\ body.vx # 0 => Abs(lastVelocity'.x) < Abs(body.vx)
         /\ lastVelocity'.x * body.vx >= 0]_vars

\* Three ticks in a row have been applied with a body, the first with a
\* direction and the last two with direction 0; the last of them started
\* from a velocity that was not 0 and was smaller than the step, and has set
\* the velocity to 0
C11_Witness ==
    /\ "apply_player_movement" \in ran
    /\ Len(Queued("PlayerInputEvent")) = 3
    /\ Queued("PlayerInputEvent")[1].movement_direction # 0
    /\ Queued("PlayerInputEvent")[2].movement_direction = 0
    /\ Queued("PlayerInputEvent")[3].movement_direction = 0
    /\ Len(Queued("PlayerMovementEvent")) = 3
    /\ lastVelocity.from_x # 0
    /\ Abs(lastVelocity.from_x) < (speed * TicksPerSecond) \div 2
    /\ lastVelocity.x = 0


\* C12 as stated: in every physics tick the input detection writes exactly
\* one PlayerInputEvent
C12_OneInputEventEveryTick ==
    [][Step("detect_player_input") =>
         Len(Emitted("PlayerInputEvent")) = 1]_vars

\* C12, amended: in every physics tick in which the player's body handle is
\* valid the input detection writes exactly one PlayerInputEvent that carries
\* the current input, also when that input is neutral, and the movement stage
\* of the tick has exactly that one event to read; in a tick in which the
\* handle is invalid no PlayerInputEvent is written
C12_OneInputEventWhenValid ==
    [][/\ Step("detect_player_input") /\ body.valid =>
            Emitted("PlayerInputEvent")
              = << [movement_direction |-> input.axis, jump_pressed |-> input.jump,
                    is_on_floor |-> body.on_floor] >>
       /\ Step("detect_player_input") /\ ~body.valid =>
            Emitted("PlayerInputEvent") = <<>>
       /\ Step("apply_player_movement") /\ body.valid =>
            Len(Unread("apply_player_movement")) = 1]_vars

\* A tick with neutral input: the input detection has written one neutral
\* event and the movement stage has read it
C12_Witness ==
    /\ body.valid
    /\ input.axis = 0 /\ ~input.jump
    /\ "apply_player_movement" \in ran
    /\ events["PlayerInputEvent"].b
         = << [movement_direction |-> 0, jump_pressed |-> FALSE,
               is_on_floor |-> TRUE] >>
    /\ cursor["apply_player_movement"]
         = Len(events["PlayerInputEvent"].a) + 1


\* C13: in a tick in which the player's body handle is invalid each of the
\* three player stages does nothing: it writes no PlayerInputEvent, no
\* PlayerMovementEvent and no sound request, leaves the body, the velocity
\* and the sprite alone and does not fail; in a tick in which the handle is
\* valid (so also in the first such tick after invalid ones) the input
\* detection writes its event, the movement stage sets a velocity and writes
\* its event, and the animation stage plays the animation of that event
C13_InvalidHandleNoOp ==
    [][\A s \in PlayerSystems :
         /\ Step(s) /\ ~body.valid =>
              /\ Emitted("PlayerInputEvent") = <<>>
              /\ Emitted("PlayerMovementEvent") = <<>>
              /\ Emitted("PlaySfxEvent") = <<>>
              /\ UNCHANGED <<body, lastVelocity, sprite, cursor>>
              /\ ~panicked'
         /\ Step(s) /\ body.valid =>
              /\ ~panicked'
              /\ s = "detect_player_input" =>
                   Len(Emitted("PlayerInputEvent")) = 1
              /\ s = "apply_player_movement" =>
                   /\ Len(Emitted("PlayerMovementEvent")) = 1
                   /\ body'.vx \in {lastVelocity'.x, 0}
                   /\ body'.vy \in {lastVelocity'.y, 0}
              /\ s = "update_player_animation" =>
                   /\ Len(Unread(s)) = 1
                   /\ sprite' = Animate(sprite, Unread(s)[1])]_vars

\* The first tick with a valid handle after a tick with an invalid one: the
\* last tick left no player event behind, in this tick all three stages ran
C13_Witness ==
    /\ body.valid
    /\ PlayerSystems \subseteq ran
    /\ events["PlayerInputEvent"].a = <<>>
    /\ events["PlayerMovementEvent"].a = <<>>
    /\ Len(events["PlayerInputEvent"].b) = 1
    /\ Len(events["PlayerMovementEvent"].b) = 1
    /\ sprite.animation # ""


\* C14: a LoadLevelEvent(L) that arrives while L is already swap-requested or
\* mounted as the current level changes nothing: the level manager requests
\* no further scene change to L (and so no further LevelLoadedEvent(L)
\* follows), that is, whenever handle_level_scene_change requests the swap
\* to the current level, that level is neither the one whose swap is pending
\* nor the one mounted
C14_LoadRequestsIdempotent ==
    [][Step("handle_level_scene_change") /\ SceneChangeDue =>
         /\ currentLevel # pendingLevel
         /\ currentLevel # scene]_vars


\* The pairs <<p, c>> of systems the code orders p before c
HardOrderings ==
    {<<"detect_player_input", "apply_player_movement">>,
     <<"apply_player_movement", "update_player_animation">>,
     <<"detect_player_input", "update_player_animation">>,
     <<"detect_gem_player_collision", "handle_gem_collected_events">>,
     <<"detect_reset_level_input", "handle_reset_level_events">>,
     <<"detect_reset_level_input", "handle_return_to_menu_events">>,
     <<"detect_return_to_menu_input", "handle_reset_level_events">>,
     <<"detect_return_to_menu_input", "handle_return_to_menu_events">>}

\* The consumers of the events the ordered stages raise
TickConsumers ==
    {"apply_player_movement", "update_player_animation",
     "handle_gem_collected_events", "handle_reset_level_events",
     "handle_return_to_menu_events"}

\* C15: in every tick no stage runs after a stage the code orders behind it
\* (input detection, movement, animation of the player; gem collision
\* detection, gem counting; the two orchestrator input detections, the two
\* orchestrator handlers), a player stage runs only after the stage before
\* it, and when the tick ends every event raised for the gem counting, the
\* orchestrator handlers, the movement and the animation stage has been read
C15_OrderedAndConsumedInTick ==
    [][/\ \A o \in HardOrderings : Step(o[1]) => o[2] \notin ran
       /\ Step("apply_player_movement") => "detect_player_input" \in ran
       /\ Step("update_player_animation") => "apply_player_movement" \in ran
       /\ ran' = {} => \A c \in TickConsumers : Unread(c) = <<>>]_vars

\* A tick in which a gem was collected and counted, the reset key was
\* pressed and handled, and the player's three stages ran
C15_Witness ==
    /\ input.reset
    /\ Len(events["GemCollectedEvent"].b) = 1
    /\ Len(events["ResetLevelEvent"].b) = 1
    /\ Len(events["PlayerMovementEvent"].b) = 1
    /\ {"handle_gem_collected_events", "handle_reset_level_events",
        "update_player_animation"} \subseteq ran
    /\ \A c \in TickConsumers : Unread(c) = <<>>
    /\ sprite.animation = "idle"


\* The stage s processes at least one event in this step without failing,
\* and so writes the resources its loop body writes
Writes(s) == Step(s) /\ Unread(s) # <<>> /\ ~panicked'

\* The chained stage s has processed at least one event earlier in this tick
HasWritten(s) == s \in ran /\ events[ReaderType(s)].b # <<>>

\* C16: no stage writes GemsCollected, CurrentLevel or HudHandles in a tick
\* in which another stage has written the same resource: the gem counting,
\* the reset handler and the menu-return handler (GemsCollected), the HUD
\* setup and the two handlers (HudHandles), the load-request handler and the
\* menu-return handler (CurrentLevel)
C16_OneWriterPerTick ==
    [][/\ Writes("handle_gem_collected_events") =>
            /\ ~HasWritten("handle_reset_level_events")
            /\ ~HasWritten("handle_return_to_menu_events")
       /\ Writes("handle_reset_level_events") =>
            /\ ~HasWritten("handle_gem_collected_events")
            /\ ~HasWritten("handle_return_to_menu_events")
       /\ Writes("handle_return_to_menu_events") =>
            /\ ~HasWritten("handle_gem_collected_events")
            /\ ~HasWritten("handle_reset_level_events")
       /\ Writes("setup_hud_on_level_loaded") =>
            /\ ~HasWritten("handle_reset_level_events")
            /\ ~HasWritten("handle_return_to_menu_events")
       /\ Writes("handle_level_load_requests") =>
            ~HasWritten("handle_return_to_menu_events")]_vars


\* C17: whenever the game state becomes MainMenu, MenuAssets is Empty (the
\* three button handles None, initialized and signals_connected false) in
\* the first state in MainMenu, in which no system has run yet
C17_MenuAssetsResetOnEnter ==
    [][gameState # "MainMenu" /\ gameState' = "MainMenu" =>
         /\ menuAssets' = MenuAssetsEmpty
         /\ ran' = {}]_vars

\* The MainMenu state has been entered again after a return from a level:
\* the cache that was Ready before the level is Empty and no system has run
C17_Witness ==
    /\ gameState = "MainMenu"
    /\ ran = {}
    /\ events["ReturnToMainMenuEvent"].a # <<>>
    /\ scene = MainMenuScene
    /\ menuAssets = MenuAssetsEmpty


\* C18: while the game is in MainMenu with signals_connected true, the
\* press-signal listener has been connected to each of the three buttons
\* exactly once: every button of the menu has one listener, none has two
C18_EachButtonConnectedOnce ==
    gameState = "MainMenu" /\ menuAssets.signals_connected =>
        \A b \in Buttons : connections[b] = 1


\* C19: in MainMenu with an Empty cache a failing lookup of the button nodes
\* (init_menu_assets runs while the menu scene is not mounted) leaves
\* MenuAssets unchanged and does not fail; as long as the cache is not
\* initialized the lookup is made in every tick; and the menu then reaches
\* Ready (initialized and signals_connected both true), unless the MainMenu
\* state is left, the game is quit or another system has panicked before
C19_LookupRetriedUntilReady ==
    /\ [][Step("init_menu_assets") /\ ~MenuNodesPresent =>
            menuAssets' = menuAssets /\ ~panicked']_vars
    /\ [][ran' = {} /\ in_state("MainMenu") /\ menu_not_initialized =>
            "init_menu_assets" \in ran]_vars
    /\ (in_state("MainMenu") /\ menu_not_initialized)
         ~> \/ menuAssets.initialized /\ menuAssets.signals_connected
            \/ ~in_state("MainMenu")
            \/ quitRequested
            \/ panicked

\* A lookup has just failed: the game is back in MainMenu while the level
\* scene is still mounted, init_menu_assets ran and the cache is still Empty
C19_Witness ==
    /\ gameState = "MainMenu"
    /\ scene \in LevelId
    /\ "init_menu_assets" \in ran
    /\ menuAssets = MenuAssetsEmpty


\* The change to a packed scene e cannot be carried out: its asset is not
\* loaded, or the resource is no scene
FailedOperation(e) ==
    e.op = "ChangeToPacked" /\ ~(assets[e.arg] = "Loaded" /\ IsPackedScene(e.arg))

OperationCarriedOut(e) == ~FailedOperation(e)

\* C20: a run of the dispatcher leaves no trace of a change to a packed scene
\* whose asset is unresolved or no scene: the pending scene change is that of
\* the last operation that could be carried out (unchanged if there is none),
\* nothing but the dispatcher's own reader position changes besides, and every
\* operation read is consumed, so none is looked at again in a later tick.
C20_FailedPackedChangeOnlyWarns ==
    [][Step("process_scene_operations") =>
         LET ok == SelectSeq(Unread("process_scene_operations"), OperationCarriedOut)
         IN  /\ sceneRequest' = IF ok = <<>> THEN sceneRequest
                                ELSE SceneOperation(None, ok[Len(ok)])
             /\ Unread("process_scene_operations")' = <<>>
             /\ UNCHANGED <<scene, assets, events, panicked, stateVars, levelVars,
                            gemVars, hudVars, restVars>>]_vars

\* The dispatcher has read two failing operations, one for a resource that is
\* loaded but no scene and one for a scene that is not loaded, and nothing
\* else; no scene change is pending
C20_Witness ==
    /\ "process_scene_operations" \in ran
    /\ Unread("process_scene_operations") = <<>>
    /\ LET ops == events["SceneOperationEvent"].a
       IN  /\ Len(ops) = 2
           /\ ops[1] = change_to_packed(OtherResource)
           /\ assets[OtherResource] = "Loaded"
           /\ ops[2] = change_to_packed(scene_path("Level2"))
           /\ assets[scene_path("Level2")] # "Loaded"
    /\ events["SceneOperationEvent"].b = <<>>
    /\ sceneRequest = None
    /\ scene = MainMenuScene


\* C21: the load-request handler sets CurrentLevel to the level of the last
\* request it reads, in that very step and whatever the state of the asset;
\* no other step changes CurrentLevel to a level, and only the return-to-menu
\* handler changes it to None.
C21_CurrentLevelWriters ==
    [][/\ Step("handle_level_load_requests")
            /\ Unread("handle_level_load_requests") # <<>>
          => LET evs == Unread("handle_level_load_requests")
             IN  currentLevel' = evs[Len(evs)].level_id
       /\ currentLevel' # currentLevel /\ currentLevel' # None
          => Step("handle_level_load_requests")
       /\ currentLevel' # currentLevel /\ currentLevel' = None
          => Step("handle_return_to_menu_events")]_vars

\* Level2 has just been requested from Level1: it is the current level while
\* its asset is still loading and Level1 is still mounted
C21_Witness ==
    /\ "handle_level_load_requests" \in ran
    /\ currentLevel = "Level2"
    /\ loadingHandle = scene_path("Level2")
    /\ assets[scene_path("Level2")] = "Loading"
    /\ scene = "Level1"
    /\ pendingLevel = None


\* C22: a run of handle_level_scene_change that finds a current level, a load
\* in flight and its asset loaded writes exactly one change to the packed
\* scene of the current level, sets PendingLevel to it, clears the loading
\* handle and writes no LevelLoadedEvent; any other run writes and changes
\* nothing.  The loading handle, once cleared, is set again only by the
\* load-request handler reading a new request, so the load is not swapped in
\* a second time.
C22_SwapRequestedOnce ==
    [][/\ Step("handle_level_scene_change")
          => IF currentLevel # None /\ loadingHandle # None
                  /\ assets[loadingHandle] = "Loaded"
             THEN /\ loadingHandle = scene_path(currentLevel)
                  /\ Emitted("SceneOperationEvent")
                       = << change_to_packed(scene_path(currentLevel)) >>
                  /\ pendingLevel' = currentLevel
                  /\ loadingHandle' = None
                  /\ Emitted("LevelLoadedEvent") = <<>>
             ELSE /\ Emitted("SceneOperationEvent") = <<>>
                  /\ Emitted("LevelLoadedEvent") = <<>>
                  /\ UNCHANGED levelVars
       /\ loadingHandle = None /\ loadingHandle' # None
          => /\ Step("handle_level_load_requests")
             /\ Unread("handle_level_load_requests") # <<>>]_vars

\* The swap to Level2 has just been requested from Level1
C22_Witness ==
    /\ "handle_level_scene_change" \in ran
    /\ "process_scene_operations" \notin ran
    /\ currentLevel = "Level2"
    /\ pendingLevel = "Level2"
    /\ loadingHandle = None
    /\ events["SceneOperationEvent"].b = << change_to_packed(scene_path("Level2")) >>
    /\ events["LevelLoadedEvent"].b = <<>>
    /\ scene = "Level1"


\* The records among evs that confirm level l
Confirming(evs, l) ==
    {i \in 1..Len(evs) :
       evs[i].event_type = "NodeAdded" /\ evs[i].path = "/root/" \o l}

\* C23: a run of emit_level_loaded_event_when_scene_ready that waits for a
\* level and reads a node-added record with that level's root path writes
\* exactly one LevelLoadedEvent for it and clears PendingLevel in the same
\* step; a run that reads only other records writes nothing and keeps
\* PendingLevel; in both cases nothing else changes.  PendingLevel, once
\* cleared, is set again only by a scene-change request, so the records left
\* of the same swap announce nothing more.
C23_ConfirmedOnce ==
    [][/\ Step("emit_level_loaded_event_when_scene_ready")
          => /\ IF pendingLevel # None
                   /\ Confirming(Unread("emit_level_loaded_event_when_scene_ready"),
                                 pendingLevel) # {}
                THEN /\ Emitted("LevelLoadedEvent") = << [level_id |-> pendingLevel] >>
                     /\ pendingLevel' = None
                ELSE /\ Emitted("LevelLoadedEvent") = <<>>
                     /\ pendingLevel' = pendingLevel
             /\ \A t \in EventTypes \ {"LevelLoadedEvent"} : events'[t] = events[t]
             /\ UNCHANGED <<currentLevel, loadingHandle, assets, engineVars,
                            stateVars, gemVars, hudVars, restVars, panicked>>
       /\ pendingLevel = None /\ pendingLevel' # None
          => Step("handle_level_scene_change")
       /\ pendingLevel = None /\ ~Step("handle_reset_level_events")
          => Emitted("LevelLoadedEvent") = <<>>]_vars

\* The level manager is idle
Idle == loadingHandle = None /\ pendingLevel = None

\* No load request is queued and none will be issued any more
NoLaterRequest ==
    /\ env.inputs = 0
    /\ Unread("handle_level_load_requests") = <<>>
    /\ "detect_door_collisions" \in ran \/ input.doors = <<>>

\* The level manager has just announced level l and is idle with l current
Announced(l) ==
    /\ "emit_level_loaded_event_when_scene_ready" \in ran
    /\ Carries("LevelLoadedEvent", l)
    /\ Idle
    /\ currentLevel = l

\* C24: when the frames keep coming and the asset of the load in flight
\* becomes ready, a load of level l that no later request follows leads to
\* the level manager announcing l and being idle with CurrentLevel = l; the
\* level manager does not stay in Loading or SwapRequested forever.
C24_LoadEventuallyConfirmed ==
    /\ \A l \in LevelId :
          (currentLevel = l /\ loadingHandle # None /\ NoLaterRequest) ~> Announced(l)
    /\ <>[](Idle /\ currentLevel # None)

\* C25: in a tick without a reset, handle_gem_collected_events writes one
\* GemCollected sound request per GemCollectedEvent it reads, and
\* generate_hud_update_events writes one GemsChanged per GemCollectedEvent it
\* reads, the i-th of them carrying the total after the i-th increment: n + 1
\* up to n + k for k events and a counter that stood at n before them.
C25_GemsChangedCarriesNewTotal ==
    [][/\ Step("handle_gem_collected_events")
          => Emitted("PlaySfxEvent")
               = [i \in 1..Len(Unread("handle_gem_collected_events")) |-> "GemCollected"]
       /\ Step("generate_hud_update_events")
            /\ "handle_reset_level_events" \notin ran
          => LET k == Len(Unread("generate_hud_update_events"))
                 n == IF "handle_gem_collected_events" \in ran
                      THEN gemsCollected - k ELSE gemsCollected
             IN  Emitted("HudUpdateEvent") = [i \in 1..k |-> GemsChanged(n + i)]]_vars


\* C26: a run of update_player_animation with a valid body consumes the one
\* PlayerMovementEvent of the tick and leaves the sprite playing "jump" if the
\* event says the body is off the floor (moving or not), otherwise "run" if it
\* says the body is moving, otherwise "idle", with the horizontal flip equal
\* to the event's facing_left.
C26_AnimationByPriority ==
    [][Step("update_player_animation") /\ body.valid
          => LET evs == Unread("update_player_animation")
             IN  /\ Len(evs) = 1
                 /\ Unread("update_player_animation")' = <<>>
                 /\ sprite'.flip_h = evs[1].facing_left
                 /\ ~evs[1].is_on_floor => sprite'.animation = "jump"
                 /\ evs[1].is_on_floor /\ evs[1].is_moving
                      => sprite'.animation = "run"
                 /\ evs[1].is_on_floor /\ ~evs[1].is_moving
                      => sprite'.animation = "idle"]_vars

\* The body moves to the left in the air: the sprite plays "jump", flipped
C26_Witness ==
    /\ "update_player_animation" \in ran
    /\ body.valid
    /\ events["PlayerMovementEvent"].b =
         << [is_moving |-> TRUE, is_on_floor |-> FALSE, facing_left |-> TRUE] >>
    /\ sprite = [animation |-> "jump", flip_h |-> TRUE]


\* C27: handle_level_music_change runs only in InGame, and after it has
\* processed one or more LevelLoadedEvents exactly one track plays on the
\* music channel, the action theme if the last event was for Level1 or Level3 and
\* the waltz theme if it was for Level2; whatever played before was stopped.
\* Nothing else starts a track: apart from these runs the channel changes only
\* by falling silent when InGame is left.  So never more than one track plays.
C27_OneTrackOfTheLastLevel ==
    [][/\ Step("handle_level_music_change")
          => /\ in_state("InGame")
             /\ LET evs == Unread("handle_level_music_change")
                IN  music' = IF evs = <<>> THEN music
                             ELSE << IF evs[Len(evs)].level_id = "Level2"
                                     THEN "waltz_theme" ELSE "action_theme" >>
       /\ ~Step("handle_level_music_change")
          => \/ music' = music
             \/ music' = <<>> /\ gameState = "InGame" /\ gameState' # "InGame"
       /\ Len(music') <= 1]_vars

\* The action theme of Level1 has given way to the waltz theme of Level2
C27_Witness ==
    /\ "handle_level_music_change" \in ran
    /\ gameState = "InGame"
    /\ scene = "Level2"
    /\ Queued("LevelLoadedEvent") = << [level_id |-> "Level2"] >>
    /\ music = << "waltz_theme" >>


\* C28: whenever a LevelLoadedEvent is written, by the load confirmation or by
\* the reset handler, CurrentLevel is the level it carries.
C28_LevelLoadedIsCurrentLevel ==
    [][\A i \in 1..Len(Emitted("LevelLoadedEvent")) :
          currentLevel' = Emitted("LevelLoadedEvent")[i].level_id]_vars


\* C29: the loading handle and PendingLevel are never both set, and whenever
\* one of them is set CurrentLevel is a level.
C29_PhasesExclusive ==
    /\ ~(loadingHandle # None /\ pendingLevel # None)
    /\ loadingHandle # None \/ pendingLevel # None => currentLevel # None


\* A return to the menu has been processed and no load request has been
\* issued since: CurrentLevel is None, no LoadLevelEvent waits to be read and
\* the doors of this frame have been looked at
ReturnedToMenu ==
    /\ currentLevel = None
    /\ "handle_return_to_menu_events" \in ran \/ gameState = "MainMenu"
    /\ Unread("handle_level_load_requests") = <<>>
    /\ "detect_door_collisions" \in ran \/ input.doors = <<>>

\* C30: after a return to the menu and before a new load request no
\* LevelLoadedEvent is written and no change to a packed scene is requested.
C30_QuietAfterReturn ==
    [][ReturnedToMenu
         => /\ Emitted("LevelLoadedEvent") = <<>>
            /\ Emitted("SceneOperationEvent") = <<>>
                 \/ "ChangeToPacked" \notin
                      {Emitted("SceneOperationEvent")[i].op :
                         i \in 1..Len(Emitted("SceneOperationEvent"))}]_vars


\* Every system of the frame has run or has nothing left to do
EndOfTick == frame = "update" /\ {s \in systems : ~Settled(s)} = {}

\* C31: at the end of a tick in which the gems label is cached and every
\* HudUpdateEvent has been applied, the label reads "Gems: " followed by the
\* value of GemsCollected.
C31_LabelShowsCounter ==
    (/\ EndOfTick
     /\ ~panicked
     /\ hudHandles.gems_label = "Live"
     /\ Unread("handle_hud_update_events") = <<>>)
      => labels.gems = "Gems: " \o ToString(gemsCollected)


\* MenuAssets is consistent: connected signals imply initialized, and
\* initialized implies that the three button handles are Some
MenuAssetsConsistent ==
    /\ menuAssets.signals_connected => menuAssets.initialized
    /\ menuAssets.initialized
         => /\ menuAssets.start_button # NoHandle
            /\ menuAssets.fullscreen_button # NoHandle
            /\ menuAssets.quit_button # NoHandle

\* This step carries out the action of a pressed button
Dispatched ==
    \/ nextState' = "InGame" /\ nextState # "InGame"
    \/ windowMode' # windowMode
    \/ quitRequested' # quitRequested
    \/ Emitted("LoadLevelEvent") # <<>>

\* C32: MenuAssets is consistent in every reachable state, and the action of
\* a pressed button (Start, Fullscreen, Quit) is carried out only by
\* listen_for_button_press, only while MenuAssets is initialized and the game
\* state is MainMenu.
C32_MenuAssetsConsistent ==
    /\ MenuAssetsConsistent
    /\ [][/\ MenuAssetsConsistent'
          /\ Dispatched => /\ Step("listen_for_button_press")
                           /\ menuAssets.initialized
                           /\ in_state("MainMenu")]_vars

\* The Fullscreen button of the connected menu has been pressed
C32_Witness ==
    /\ "listen_for_button_press" \in ran
    /\ gameState = "MainMenu"
    /\ menuAssets.initialized
    /\ menuAssets.signals_connected
    /\ menuAssets.fullscreen_button = Handle("FullscreenButton")
    /\ windowMode = "FULLSCREEN"
    /\ nextState = None


\* C33: a tick in which the reset key and the menu key were both detected and
\* both handlers have run ends with GemsCollected = 0, CurrentLevel = None,
\* the next state MainMenu, the change to the main menu as the last scene
\* operation written, and no LevelLoadedEvent written in the tick.
C33_ResetAndReturnTogether ==
    (/\ EndOfTick
     /\ in_state("InGame")
     /\ input.reset /\ input.menu
     /\ input.doors = <<>>
     /\ "handle_reset_level_events" \in ran
     /\ "handle_return_to_menu_events" \in ran)
      => /\ gemsCollected = 0
         /\ currentLevel = None
         /\ nextState = "MainMenu"
         /\ LET ops == events["SceneOperationEvent"].b
            IN  ops # <<>> /\ ops[Len(ops)] = change_to_file(MainMenuFile)
         /\ events["LevelLoadedEvent"].b = <<>>


\* C34: the music channel is silent whenever the game state is not InGame (it
\* is silenced when InGame is left), a track is started and a sound is played
\* only by the audio systems running in InGame, and when InGame is entered no
\* LevelLoadedEvent and no sound request written before is left for them.
C34_NoSoundOutsideInGame ==
    [][/\ gameState' # "InGame" => music' = <<>>
       /\ music' # music /\ music' # <<>>
            => in_state("InGame") /\ Step("handle_level_music_change")
       /\ sfx' # sfx /\ sfx' # <<>>
            => in_state("InGame") /\ Step("handle_sfx_events")
       /\ gameState # "InGame" /\ gameState' = "InGame"
            => /\ Unread("handle_level_music_change")' = <<>>
               /\ Unread("handle_sfx_events")' = <<>>]_vars


\* The game has been left for the menu while Level1 was being mounted: in the
\* MainMenu state a LevelLoadedEvent and a sound request wait unread, the
\* music channel is silent and no sound is played
C34_Witness ==
    /\ gameState = "MainMenu"
    /\ scene = "Level1"
    /\ Unread("handle_level_music_change") = << [level_id |-> "Level1"] >>
    /\ Unread("handle_sfx_events") = << "GemCollected" >>
    /\ EndOfTick
    /\ music = <<>>
    /\ sfx = <<>>


\* C35: a run of apply_player_movement with a valid body writes exactly one
\* PlayerMovementEvent; its is_moving is true iff one of the input events read
\* in the run has a direction other than 0, and its facing_left is true iff
\* the last input event read has a negative direction, so that a tick with
\* direction 0 reports facing_left = false.  With an invalid body it writes
\* none.
C35_MovementEventOfTheTick ==
    [][Step("apply_player_movement")
         => LET evs == Unread("apply_player_movement")
                out == Emitted("PlayerMovementEvent")
            IN  IF body.valid
                THEN /\ Len(out) = 1
                     /\ out[1].is_moving
                          <=> \E i \in 1..Len(evs) : evs[i].movement_direction # 0
                     /\ out[1].facing_left
                          <=> evs # <<>> /\ evs[Len(evs)].movement_direction < 0
                ELSE out = <<>>]_vars

\* The player faced left in the tick before and presses no direction now: the
\* movement event of this tick says not moving, not facing left
C35_Witness ==
    /\ "apply_player_movement" \in ran
    /\ "update_player_animation" \notin ran
    /\ body.valid
    /\ sprite.flip_h
    /\ Len(events["PlayerInputEvent"].b) = 1
    /\ events["PlayerInputEvent"].b[1].movement_direction = 0
    /\ Len(events["PlayerMovementEvent"].b) = 1
    /\ ~events["PlayerMovementEvent"].b[1].is_moving
    /\ ~events["PlayerMovementEvent"].b[1].facing_left

====
